---- MODULE Spec2Model ----
\* A model of python-semantic-release's version algorithm (next_version),
\* tag index (tags_and_versions) and release history (release_history),
\* run against a small Git repository that grows by commits and tags, and of
\* the units around them (branch selection, commit parsers, Version.bump,
\* the HVCS client, the changelog context and the release commands), each
\* called on inputs drawn from small sets.
EXTENDS Integers, Sequences, FiniteSets, TLC

\* commits, head, tags: the Git repository; origin: the HEAD and the tags
\* the remote holds since the last push; written: the versions written to
\* the version files of the working tree since the checkout, in order;
\* run, hist, tv: the last result of next_version, release_history and
\* tags_and_versions; call: the last call of one of the other units, with
\* its arguments and what it did.
VARIABLES commits, head, tags, origin, written, run, hist, tv, call

vars == <<commits, head, tags, origin, written, run, hist, tv, call>>

\* ---------------------------------------------------------------- bounds
MaxCommits == 3
MaxTags == 2
MaxWritten == 2
MaxIndexTags == 3
MaxGroups == 2
MaxParagraphs == 2
MaxRevision == 2
MaxJobs == 2

\* ------------------------------------------------------------- LevelBump
NO_RELEASE == 0
PATCH == 1
MINOR == 2
MAJOR == 3

LevelBump == {NO_RELEASE, PATCH, MINOR, MAJOR}

min(a, b) == IF a <= b THEN a ELSE b

max(S, default) ==
    IF S = {} THEN default
    ELSE CHOOSE x \in S : \A y \in S : y <= x

\* --------------------------------------------------------------- Version
\* prerelease_token = "" stands for no prerelease part; a prerelease part
\* with prerelease_revision = 0 is the bare token without a number, as in
\* 1.0.0-rc. build = "" stands for no build metadata.
Version(major, minor, patch, prerelease_token, prerelease_revision) ==
    [major |-> major, minor |-> minor, patch |-> patch,
     prerelease_token |-> prerelease_token,
     prerelease_revision |-> prerelease_revision, build |-> ""]

\* The version v with build metadata b, as in 1.0.0+build.1.
with_build(v, b) == [v EXCEPT !.build = b]

\* Python's None where a Version is expected.
None == Version(-1, -1, -1, "", 0)

is_prerelease(v) == v.prerelease_token # ""

finalize_version(v) == Version(v.major, v.minor, v.patch, "", 0)

\* Mutant: without a revision the suffix gets no number.
to_prerelease_unnumbered(v, token, revision) ==
    Version(v.major, v.minor, v.patch, token, revision)

to_prerelease(v, token, revision) ==
    Version(v.major, v.minor, v.patch, token,
            IF revision # 0 THEN revision
            ELSE IF v.prerelease_revision # 0 THEN v.prerelease_revision
            ELSE 1)

\* semver.VersionInfo.bump_prerelease: "<token>.1" on a version without a
\* prerelease part, otherwise the last number in the part plus one; a part
\* without a number is left as it is. Build metadata is dropped.
bump_prerelease(v, token) ==
    IF v.prerelease_token = ""
    THEN Version(v.major, v.minor, v.patch, token, 1)
    ELSE IF v.prerelease_revision = 0
    THEN Version(v.major, v.minor, v.patch, v.prerelease_token, 0)
    ELSE Version(v.major, v.minor, v.patch, v.prerelease_token,
                 v.prerelease_revision + 1)

bump_major(v) == Version(v.major + 1, 0, 0, "", 0)
bump_minor(v) == Version(v.major, v.minor + 1, 0, "", 0)
bump_patch(v) == Version(v.major, v.minor, v.patch + 1, "", 0)

\* Mutant: a MINOR bump takes the PATCH branch.
bump_minor_as_patch(v, level, prerelease, prerelease_token) ==
    IF level = NO_RELEASE THEN v
    ELSE IF is_prerelease(v) /\ prerelease THEN bump_prerelease(v, "rc")
    ELSE LET version == CASE level = MAJOR -> bump_major(v)
                          [] level = MINOR -> bump_patch(v)
                          [] level = PATCH -> bump_patch(v)
                          [] OTHER -> v
         IN  IF prerelease THEN bump_prerelease(version, prerelease_token)
             ELSE version

bump(v, level, prerelease, prerelease_token) ==
    IF level = NO_RELEASE THEN v
    ELSE IF is_prerelease(v) /\ prerelease THEN bump_prerelease(v, "rc")
    ELSE LET version == CASE level = MAJOR -> bump_major(v)
                          [] level = MINOR -> bump_minor(v)
                          [] level = PATCH -> bump_patch(v)
                          [] OTHER -> v
         IN  IF prerelease THEN bump_prerelease(version, prerelease_token)
             ELSE version

\* a - b: the coarsest level in which the core triples differ.
sub(a, b) ==
    IF a.major # b.major THEN MAJOR
    ELSE IF a.minor # b.minor THEN MINOR
    ELSE IF a.patch # b.patch THEN PATCH
    ELSE NO_RELEASE

\* Alphabetical rank of the prerelease tokens in use.
TokenRank(t) == CASE t = "alpha" -> 1 [] t = "rc" -> 2 [] OTHER -> 0

\* SemVer 2.0.0 precedence: a < b.
lt(a, b) ==
    IF a.major # b.major THEN a.major < b.major
    ELSE IF a.minor # b.minor THEN a.minor < b.minor
    ELSE IF a.patch # b.patch THEN a.patch < b.patch
    ELSE IF is_prerelease(a) # is_prerelease(b) THEN is_prerelease(a)
    ELSE IF a.prerelease_token # b.prerelease_token
         THEN TokenRank(a.prerelease_token) < TokenRank(b.prerelease_token)
    ELSE a.prerelease_revision < b.prerelease_revision

\* ----------------------------------------------------- VersionTranslator
\* A tag name is the text before the version (the part tag_format puts in
\* front of {version}) and the version text, held in parsed form.
tag_format == "v"

TagName(prefix, v) == [prefix |-> prefix, text |-> v]

from_string(s) == s

from_tag(name) == IF name.prefix = tag_format THEN from_string(name.text) ELSE None

as_tag(v) == TagName(tag_format, v)

\* --------------------------------------------------------- commit parser
\* A commit message: the token its subject line starts with (an Angular
\* type such as "feat", a legacy tag such as ":sparkles:", any other word,
\* or "" for a message without a first line: an empty one, or one that
\* begins with a line break), whether "!" follows the type, and the
\* paragraphs of the body.
Message(type, break, text) == [type |-> type, break |-> break, text |-> text]

\* A body paragraph: what it starts with, up to ": ", and what follows.
Paragraph(label, description) == [label |-> label, description |-> description]

\* parse_paragraphs(text): the body split on blank lines.
parse_paragraphs(text) == text

\* breaking_re.match(p): ^BREAKING[ -]CHANGE: (.+)$
breaking_re_match(p) ==
    p.label \in {"BREAKING CHANGE", "BREAKING-CHANGE"} /\ p.description # ""

allowed_tags == {"build", "chore", "ci", "docs", "feat", "fix", "perf",
                 "style", "refactor", "test"}
minor_tags == {"feat"}
patch_tags == {"fix", "perf"}
default_bump_level == NO_RELEASE

LONG_TYPE_NAMES(type) ==
    CASE type = "feat" -> "feature"
      [] type = "docs" -> "documentation"
      [] type = "perf" -> "performance"
      [] OTHER -> type

ParseError(commit) ==
    [kind |-> "ParseError", bump |-> NO_RELEASE, type |-> "unknown",
     breaking_descriptions |-> <<>>, commit |-> commit]

ParsedCommit(bump_, type, breaking_descriptions, commit) ==
    [kind |-> "ParsedCommit", bump |-> bump_, type |-> type,
     breaking_descriptions |-> breaking_descriptions, commit |-> commit]

\* The descriptions captured from the paragraphs that are breaking-change
\* trailers, in order.
RECURSIVE breaking_descriptions_of(_)
breaking_descriptions_of(paragraphs) ==
    IF paragraphs = <<>> THEN <<>>
    ELSE (IF breaking_re_match(Head(paragraphs))
          THEN <<Head(paragraphs).description>> ELSE <<>>)
         \o breaking_descriptions_of(Tail(paragraphs))

\* Mutant: the type is looked at before the breaking-change marks.
parse_type_first(c) ==
    LET message == commits[c].message
        breaking_descriptions ==
            breaking_descriptions_of(parse_paragraphs(message.text))
        level_bump ==
            IF message.type \in minor_tags THEN MINOR
            ELSE IF message.type \in patch_tags THEN PATCH
            ELSE IF message.break \/ breaking_descriptions # <<>> THEN MAJOR
            ELSE default_bump_level
    IN  IF message.type \notin allowed_tags THEN ParseError(c)
        ELSE ParsedCommit(level_bump, LONG_TYPE_NAMES(message.type),
                          breaking_descriptions, c)

\* AngularCommitParser.parse applied to the commit with id c.
parse(c) ==
    LET message == commits[c].message
        breaking_descriptions ==
            breaking_descriptions_of(parse_paragraphs(message.text))
        level_bump ==
            IF message.break \/ breaking_descriptions # <<>> THEN MAJOR
            ELSE IF message.type \in minor_tags THEN MINOR
            ELSE IF message.type \in patch_tags THEN PATCH
            ELSE default_bump_level
    IN  IF message.type \notin allowed_tags THEN ParseError(c)
        ELSE ParsedCommit(level_bump, LONG_TYPE_NAMES(message.type),
                          breaking_descriptions, c)

\* TagCommitParser: the legacy tags and whether a message contains one.
minor_tag == ":sparkles:"
patch_tag == ":nut_and_bolt:"

contains(message, tag) ==
    \/ message.type = tag
    \/ \E i \in DOMAIN message.text : message.text[i].label = tag

\* Mutant: a message without a legacy tag raises instead of returning.
tag_parse_raises(c) ==
    LET message == commits[c].message
    IN  IF message.type # "" /\ (contains(message, minor_tag) \/ contains(message, patch_tag))
        THEN ParsedCommit(MINOR, "feature", <<>>, c)
        ELSE [kind |-> "CommitParseError", bump |-> NO_RELEASE, type |-> "unknown",
              breaking_descriptions |-> <<>>, commit |-> c]

\* TagCommitParser.parse applied to the commit with id c.
tag_parse(c) ==
    LET message == commits[c].message
        breaking_descriptions ==
            breaking_descriptions_of(parse_paragraphs(message.text))
    IN  IF message.type = "" THEN ParseError(c)
        ELSE IF contains(message, minor_tag)
        THEN IF breaking_descriptions # <<>>
             THEN ParsedCommit(MAJOR, "breaking", breaking_descriptions, c)
             ELSE ParsedCommit(MINOR, "feature", breaking_descriptions, c)
        ELSE IF contains(message, patch_tag)
        THEN IF breaking_descriptions # <<>>
             THEN ParsedCommit(MAJOR, "breaking", breaking_descriptions, c)
             ELSE ParsedCommit(PATCH, "fix", breaking_descriptions, c)
        ELSE ParseError(c)

\* ParseError.raise_error
raise_error(parse_error) == [status |-> "CommitParseError"]

\* ------------------------------------------------------------------ Repo
\* Commits are numbered in the order they were made; commits[c].parents
\* lists the parents of c, first parent first, and commits[c].committed_date
\* is its committer date, in seconds: a commit is never older than one made
\* before it, and two commits can be made in the same second.
RECURSIVE Ancestors(_)
Ancestors(c) ==
    {c} \cup UNION {Ancestors(commits[c].parents[i]) : i \in DOMAIN commits[c].parents}

\* The commit git takes next from a list of commits it keeps by date: the
\* newest one, and of several of one date the one that entered the list
\* first. queue lists the commits in the order they entered.
first_newest(queue) ==
    CHOOSE i \in DOMAIN queue :
        \A j \in DOMAIN queue :
            /\ commits[queue[j]].committed_date <= commits[queue[i]].committed_date
            /\ commits[queue[j]].committed_date = commits[queue[i]].committed_date
                   => i <= j

remove_at(queue, i) == SubSeq(queue, 1, i - 1) \o SubSeq(queue, i + 1, Len(queue))

\* git rev-list: the commits reachable from those in queue, each taken when
\* it is the first newest of the list; its parents that were not seen yet
\* enter the list then, first parent first.
RECURSIVE rev_list(_, _)
rev_take(queue, seen, i) ==
    LET unseen == SelectSeq(commits[queue[i]].parents, LAMBDA q : q \notin seen)
    IN  <<queue[i]>> \o rev_list(remove_at(queue, i) \o unseen,
                                 seen \cup {unseen[k] : k \in DOMAIN unseen})

rev_list(queue, seen) ==
    IF queue = <<>> THEN <<>> ELSE rev_take(queue, seen, first_newest(queue))

\* The commit a tag name resolves to.
rev_parse(name) == (CHOOSE t \in tags : t.name = name).commit

\* repo.iter_commits(): the history of HEAD, newest first.
iter_commits == rev_list(<<head>>, {head})

\* repo.iter_commits("<tag>..."): the commits reachable from exactly one of
\* the tag and HEAD, newest first.
iter_commits_since(name) ==
    LET t == rev_parse(name)
        a == Ancestors(t)
        b == Ancestors(head)
    IN  SelectSeq(IF t = head THEN rev_list(<<head>>, {head})
                  ELSE rev_list(<<t, head>>, {t, head}),
                  LAMBDA c : c \in (a \cup b) \ (a \cap b))

\* The best common ancestors of two commits: the common ancestors that are
\* not an ancestor of another common ancestor.
best_common_ancestors(a, b) ==
    LET common == Ancestors(a) \cap Ancestors(b)
    IN  {c \in common : \A d \in common : d # c => c \notin Ancestors(d)}

\* commit_list_insert_by_date: c is put before the first commit of the list
\* that is older than it, so behind those of its own date.
insert_by_date(list, c) ==
    LET older == {i \in DOMAIN list :
                      commits[list[i]].committed_date < commits[c].committed_date}
        at == Len(list) - Cardinality(older)
    IN  SubSeq(list, 1, at) \o <<c>> \o SubSeq(list, at + 1, Len(list))

\* git merge-base paints the ancestors of a (PARENT1) and of b (PARENT2),
\* taking the first newest commit of the queue each time, until only
\* commits below a common ancestor (STALE) are left. A commit met with both
\* colours and not stale is a common ancestor: it enters the result by date
\* and its ancestors become stale. flags[c] is the set of flags of commit c.
RECURSIVE paint_down_to_common(_, _, _)
\* The flags handed to the parents of a commit with the flags flags_c.
passed(flags_c, found) ==
    IF found THEN {"PARENT1", "PARENT2", "STALE"}
    ELSE flags_c \cap {"PARENT1", "PARENT2", "STALE"}

\* The parents that lacked one of the flags handed down enter the queue.
paint_parents(queue, flags, result, i, found) ==
    LET painted ==
            SelectSeq(commits[queue[i]].parents,
                      LAMBDA q : ~(passed(flags[queue[i]], found) \subseteq flags[q]))
    IN  paint_down_to_common(
            remove_at(queue, i) \o painted,
            [q \in DOMAIN flags |->
                IF \E k \in DOMAIN painted : painted[k] = q
                THEN flags[q] \cup passed(flags[queue[i]], found)
                ELSE IF q = queue[i] /\ found THEN flags[q] \cup {"RESULT"}
                ELSE flags[q]],
            IF found /\ "RESULT" \notin flags[queue[i]]
            THEN insert_by_date(result, queue[i]) ELSE result)

paint_commit(queue, flags, result, i) ==
    paint_parents(queue, flags, result, i,
                  flags[queue[i]] \cap {"PARENT1", "PARENT2", "STALE"}
                      = {"PARENT1", "PARENT2"})

paint_down_to_common(queue, flags, result) ==
    IF \A i \in DOMAIN queue : "STALE" \in flags[queue[i]]
    THEN [result |-> result, flags |-> flags]
    ELSE paint_commit(queue, flags, result, first_newest(queue))

\* The painted common ancestors that did not become stale.
not_stale(painted) ==
    SelectSeq(painted.result, LAMBDA c : "STALE" \notin painted.flags[c])

\* remove_redundant: a commit that is an ancestor of another one of the
\* list is dropped.
remove_redundant(list) ==
    SelectSeq(list, LAMBDA c : \A k \in DOMAIN list :
                                   list[k] # c => c \notin Ancestors(list[k]))

\* git merge-base a b: the common ancestors painted that are not stale and
\* not an ancestor of another of them, newest first and those of one date
\* in the order they were met.
merge_bases_many(a, b) ==
    IF a = b THEN <<a>>
    ELSE remove_redundant(not_stale(paint_down_to_common(
             <<a, b>>,
             [c \in DOMAIN commits |->
                 (IF c = a THEN {"PARENT1"} ELSE {})
                 \cup (IF c = b THEN {"PARENT2"} ELSE {})],
             <<>>)))

\* The output of git merge-base without --all: the first merge base.
first_of(bases) == IF bases = <<>> THEN <<>> ELSE <<bases[1]>>

\* repo.merge_base(a, b), called without all=True: git merge-base prints
\* the first of the merge bases it found, so the list holds one commit, or
\* none when the two commits have no common ancestor.
merge_base(a, b) == first_of(merge_bases_many(a, b))

\* ------------------------------------------------------ tags_and_versions
Pair(t) == [tag |-> t, version |-> from_tag(t.name)]

\* sorted(pairs, reverse=..., key=lambda v: v[1])
RECURSIVE sorted(_, _)
sorted(S, reverse) ==
    IF S = {} THEN <<>>
    ELSE LET first == CHOOSE x \in S : \A y \in S :
                          y = x \/ IF reverse THEN lt(y.version, x.version)
                                   ELSE lt(x.version, y.version)
         IN  <<first>> \o sorted(S \ {first}, reverse)

\* Mutant: reverse=True is missing.
tags_and_versions_ascending(ts) ==
    LET pairs == {Pair(t) : t \in ts}
    IN  IF Cardinality(pairs) >= 2 /\ \E p \in pairs : p.version = None
        THEN [status |-> "TypeError", value |-> <<>>]
        ELSE [status |-> "ok", value |-> sorted(pairs, FALSE)]

\* Comparing None with a Version (or with None) raises TypeError, and
\* sorting two or more elements compares every one of them.
tags_and_versions(ts) ==
    LET pairs == {Pair(t) : t \in ts}
    IN  IF Cardinality(pairs) >= 2 /\ \E p \in pairs : p.version = None
        THEN [status |-> "TypeError", value |-> <<>>]
        ELSE [status |-> "ok", value |-> sorted(pairs, TRUE)]

\* Index of the first pair of the list whose tag points at commit c, or 0.
first_match(pairs, c) ==
    LET hits == {i \in DOMAIN pairs : pairs[i].tag.commit = c}
    IN  IF hits = {} THEN 0 ELSE CHOOSE i \in hits : \A j \in hits : i <= j

\* ------------------------------------ _bfs_for_latest_version_in_history
RECURSIVE bfs(_, _, _)
bfs(visited, q, full_release_tags_and_versions) ==
    IF q = <<>> THEN None
    ELSE LET node == Head(q)
             i == first_match(full_release_tags_and_versions, node)
         IN  IF node \in visited THEN None
             ELSE IF i # 0 THEN full_release_tags_and_versions[i].version
             ELSE bfs(visited \cup {node}, Tail(q) \o commits[node].parents,
                      full_release_tags_and_versions)

_bfs_for_latest_version_in_history(merge_base_, full_release_tags_and_versions) ==
    bfs({}, <<merge_base_>>, full_release_tags_and_versions)

\* ---------------------------------------------------- _increment_version
\* Mutant: the prerelease branch compares with >= instead of >.
_increment_version_ge(latest_version, latest_full_version, latest_full_version_in_history, level_bump_in, prerelease, prerelease_token, major_on_zero) ==
    LET level_bump ==
            IF ~major_on_zero /\ latest_version.major = 0
            THEN min(level_bump_in, MINOR) ELSE level_bump_in
        target_final_version == finalize_version(latest_full_version)
        diff_with_last_released_version ==
            sub(latest_version, latest_full_version_in_history)
    IN  IF prerelease
        THEN IF level_bump >= diff_with_last_released_version
             THEN to_prerelease(bump(target_final_version, level_bump, FALSE, "beta"),
                                prerelease_token, 0)
             ELSE to_prerelease(
                      latest_version, prerelease_token,
                      IF latest_version.prerelease_token # prerelease_token
                      THEN 1 ELSE latest_version.prerelease_revision + 1)
        ELSE IF is_prerelease(latest_version)
        THEN IF level_bump > diff_with_last_released_version
             THEN finalize_version(bump(latest_version, level_bump, FALSE, "beta"))
             ELSE finalize_version(latest_version)
        ELSE bump(latest_version, level_bump, FALSE, "beta")

\* Mutant: major_on_zero is ignored.
_increment_version_unclamped(latest_version, latest_full_version, latest_full_version_in_history, level_bump_in, prerelease, prerelease_token, major_on_zero) ==
    LET level_bump ==
            level_bump_in
        target_final_version == finalize_version(latest_full_version)
        diff_with_last_released_version ==
            sub(latest_version, latest_full_version_in_history)
    IN  IF prerelease
        THEN IF level_bump > diff_with_last_released_version
             THEN to_prerelease(bump(target_final_version, level_bump, FALSE, "beta"),
                                prerelease_token, 0)
             ELSE to_prerelease(
                      latest_version, prerelease_token,
                      IF latest_version.prerelease_token # prerelease_token
                      THEN 1 ELSE latest_version.prerelease_revision + 1)
        ELSE IF is_prerelease(latest_version)
        THEN IF level_bump > diff_with_last_released_version
             THEN finalize_version(bump(latest_version, level_bump, FALSE, "beta"))
             ELSE finalize_version(latest_version)
        ELSE bump(latest_version, level_bump, FALSE, "beta")

\* Mutant: the revision goes on counting when the token changes.
_increment_version_keeps_counting(latest_version, latest_full_version, latest_full_version_in_history, level_bump_in, prerelease, prerelease_token, major_on_zero) ==
    LET level_bump ==
            IF ~major_on_zero /\ latest_version.major = 0
            THEN min(level_bump_in, MINOR) ELSE level_bump_in
        target_final_version == finalize_version(latest_full_version)
        diff_with_last_released_version ==
            sub(latest_version, latest_full_version_in_history)
    IN  IF prerelease
        THEN IF level_bump > diff_with_last_released_version
             THEN to_prerelease(bump(target_final_version, level_bump, FALSE, "beta"),
                                prerelease_token, 0)
             ELSE to_prerelease(
                      latest_version, prerelease_token,
                      latest_version.prerelease_revision + 1)
        ELSE IF is_prerelease(latest_version)
        THEN IF level_bump > diff_with_last_released_version
             THEN finalize_version(bump(latest_version, level_bump, FALSE, "beta"))
             ELSE finalize_version(latest_version)
        ELSE bump(latest_version, level_bump, FALSE, "beta")

_increment_version(latest_version, latest_full_version, latest_full_version_in_history, level_bump_in, prerelease, prerelease_token, major_on_zero) ==
    LET level_bump ==
            IF ~major_on_zero /\ latest_version.major = 0
            THEN min(level_bump_in, MINOR) ELSE level_bump_in
        target_final_version == finalize_version(latest_full_version)
        diff_with_last_released_version ==
            sub(latest_version, latest_full_version_in_history)
    IN  IF prerelease
        THEN IF level_bump > diff_with_last_released_version
             THEN to_prerelease(bump(target_final_version, level_bump, FALSE, "beta"),
                                prerelease_token, 0)
             ELSE to_prerelease(
                      latest_version, prerelease_token,
                      IF latest_version.prerelease_token # prerelease_token
                      THEN 1 ELSE latest_version.prerelease_revision + 1)
        ELSE IF is_prerelease(latest_version)
        THEN IF level_bump > diff_with_last_released_version
             THEN finalize_version(bump(latest_version, level_bump, FALSE, "beta"))
             ELSE finalize_version(latest_version)
        ELSE bump(latest_version, level_bump, FALSE, "beta")

\* ---------------------------------------------------------- next_version
\* The outcome of a call: status "ok" and the values it computed, or the
\* name of the exception it raised.
Outcome(status, prerelease, major_on_zero, prerelease_token, version, latest_version, latest_full_release_version, latest_full_version_in_history, level_bump, range, walked) ==
    [status |-> status, prerelease |-> prerelease,
     major_on_zero |-> major_on_zero, prerelease_token |-> prerelease_token,
     version |-> version, latest_version |-> latest_version,
     latest_full_release_version |-> latest_full_release_version,
     latest_full_version_in_history |-> latest_full_version_in_history,
     level_bump |-> level_bump, range |-> range, walked |-> walked]

Raise(exception, prerelease, major_on_zero, prerelease_token) ==
    Outcome(exception, prerelease, major_on_zero, prerelease_token,
            None, None, None, None, NO_RELEASE, <<>>, <<>>)

\* Mutant: a matching tag does not end the walk.
RECURSIVE walk_on(_, _, _, _, _)
walk_on(cs, n, parsed_levels, latest_version, qualifying) ==
    IF n > Len(cs)
    THEN [parsed_levels |-> parsed_levels, latest_version |-> latest_version,
          walked |-> cs]
    ELSE LET commit == cs[n]
             parse_result == parse(commit)
             levels == IF parse_result.kind = "ParsedCommit"
                       THEN parsed_levels \cup {parse_result.bump}
                       ELSE parsed_levels
             i == first_match(qualifying, commit)
         IN  walk_on(cs, n + 1, levels,
                     IF i # 0 THEN qualifying[i].version ELSE latest_version,
                     qualifying)

\* Mutant: a commit that does not parse counts as a PATCH.
RECURSIVE walk_counts_errors(_, _, _, _, _)
walk_counts_errors(cs, n, parsed_levels, latest_version, qualifying) ==
    IF n > Len(cs)
    THEN [parsed_levels |-> parsed_levels, latest_version |-> latest_version,
          walked |-> cs]
    ELSE LET commit == cs[n]
             parse_result == parse(commit)
             levels == IF parse_result.kind = "ParsedCommit"
                       THEN parsed_levels \cup {parse_result.bump}
                       ELSE parsed_levels \cup {PATCH}
             i == first_match(qualifying, commit)
         IN  IF i # 0
             THEN [parsed_levels |-> levels,
                   latest_version |-> qualifying[i].version,
                   walked |-> SubSeq(cs, 1, n)]
             ELSE walk_counts_errors(cs, n + 1, levels, latest_version, qualifying)

\* The loop over commits_since_last_full_release: parse the commit, then
\* look for a qualifying tag on it; the first hit ends the walk.
RECURSIVE walk(_, _, _, _, _)
walk(cs, n, parsed_levels, latest_version, qualifying) ==
    IF n > Len(cs)
    THEN [parsed_levels |-> parsed_levels, latest_version |-> latest_version,
          walked |-> cs]
    ELSE LET commit == cs[n]
             parse_result == parse(commit)
             levels == IF parse_result.kind = "ParsedCommit"
                       THEN parsed_levels \cup {parse_result.bump}
                       ELSE parsed_levels
             i == first_match(qualifying, commit)
         IN  IF i # 0
             THEN [parsed_levels |-> levels,
                   latest_version |-> qualifying[i].version,
                   walked |-> SubSeq(cs, 1, n)]
             ELSE walk(cs, n + 1, levels, latest_version, qualifying)

\* Mutant: no early return for NO_RELEASE.
release_always(latest_version, latest_full_release_version, latest_full_version_in_history, level_bump, prerelease, prerelease_token, major_on_zero) ==
    _increment_version(latest_version, latest_full_release_version,
                       latest_full_version_in_history, level_bump,
                       prerelease, prerelease_token, major_on_zero)

\* The end of next_version: no release when the level is NO_RELEASE,
\* otherwise the incremented version.
release_or_not(latest_version, latest_full_release_version, latest_full_version_in_history, level_bump, prerelease, prerelease_token, major_on_zero) ==
    IF level_bump = NO_RELEASE THEN latest_version
    ELSE _increment_version(latest_version, latest_full_release_version,
                            latest_full_version_in_history, level_bump,
                            prerelease, prerelease_token, major_on_zero)

next_version(prerelease, major_on_zero, prerelease_token) ==
    LET tvs == tags_and_versions(tags)
        all_git_tags_as_versions == tvs.value
        all_full_release_tags_and_versions ==
            SelectSeq(all_git_tags_as_versions,
                      LAMBDA p : ~is_prerelease(p.version))
        no_full_release == all_full_release_tags_and_versions = <<>>
        latest_full_release_version ==
            IF no_full_release THEN from_string(Version(0, 0, 0, "", 0))
            ELSE all_full_release_tags_and_versions[1].version
        merge_bases ==
            IF no_full_release THEN merge_base(head, head)
            ELSE merge_base(all_full_release_tags_and_versions[1].tag.commit, head)
        latest_full_version_in_history ==
            _bfs_for_latest_version_in_history(
                merge_bases[1], all_full_release_tags_and_versions)
        commits_since_last_full_release ==
            IF latest_full_version_in_history = None THEN iter_commits
            ELSE iter_commits_since(as_tag(latest_full_version_in_history))
        w == walk(commits_since_last_full_release, 1, {},
                  IF latest_full_version_in_history # None
                  THEN latest_full_version_in_history
                  ELSE Version(0, 0, 0, prerelease_token, 0),
                  SelectSeq(all_git_tags_as_versions,
                            LAMBDA p : prerelease \/ ~is_prerelease(p.version)))
        level_bump == max(w.parsed_levels, NO_RELEASE)
        base_in_history ==
            IF latest_full_version_in_history # None
            THEN latest_full_version_in_history
            ELSE Version(0, 0, 0, prerelease_token, 0)
    IN  IF tvs.status # "ok"
        THEN Raise(tvs.status, prerelease, major_on_zero, prerelease_token)
        ELSE IF \E i \in DOMAIN all_git_tags_as_versions :
                    all_git_tags_as_versions[i].version = None
        THEN Raise("AttributeError", prerelease, major_on_zero, prerelease_token)
        ELSE IF Len(merge_bases) > 1
        THEN Raise("NotImplementedError", prerelease, major_on_zero, prerelease_token)
        ELSE IF Len(merge_bases) = 0
        THEN Raise("IndexError", prerelease, major_on_zero, prerelease_token)
        ELSE Outcome("ok", prerelease, major_on_zero, prerelease_token,
                     release_or_not(w.latest_version, latest_full_release_version,
                                    base_in_history, level_bump, prerelease,
                                    prerelease_token, major_on_zero),
                     w.latest_version, latest_full_release_version,
                     latest_full_version_in_history, level_bump,
                     commits_since_last_full_release, w.walked)

\* ------------------------------------------------------- release_history
\* A dict of lists keyed by commit type (defaultdict(list)).
EmptyDict == [t \in {} |-> <<>>]

\* Mutant: the list of the key is replaced instead of extended.
append_replaces(d, key, x) ==
    IF key \in DOMAIN d THEN [d EXCEPT ![key] = <<x>>]
    ELSE d @@ (key :> <<x>>)

append(d, key, x) ==
    IF key \in DOMAIN d THEN [d EXCEPT ![key] = Append(@, x)]
    ELSE d @@ (key :> <<x>>)

Release(version) == [version |-> version, elements |-> EmptyDict]

\* released.setdefault(the_version, release) on an insertion-ordered dict.
setdefault(released_, version) ==
    IF \E i \in DOMAIN released_ : released_[i].version = version
    THEN released_ ELSE Append(released_, Release(version))

History(status, unreleased, released_, walked) ==
    [status |-> status, unreleased |-> unreleased, released |-> released_,
     walked |-> walked]

\* Mutant: only the tagged commit itself counts as released.
RECURSIVE history_loop_forgets(_, _, _, _, _, _, _)
history_loop_forgets(cs, n, all_git_tags_and_versions, is_commit_released, the_version, unreleased, released_) ==
    IF n > Len(cs) THEN History("ok", unreleased, released_, cs)
    ELSE LET commit == cs[n]
             parse_result == parse(commit)
             commit_type == IF parse_result.kind = "ParseError" THEN "unknown"
                            ELSE parse_result.type
             i == first_match(all_git_tags_and_versions, commit)
             is_released == i # 0
             version == IF i # 0 THEN all_git_tags_and_versions[i].version
                        ELSE the_version
             with_release == IF i # 0 THEN setdefault(released_, version)
                             ELSE released_
             k == CHOOSE j \in DOMAIN with_release :
                      with_release[j].version = version
         IN  IF ~is_released
             THEN history_loop_forgets(cs, n + 1, all_git_tags_and_versions, FALSE,
                               version, append(unreleased, commit_type, parse_result),
                               with_release)
             ELSE IF version = None
             THEN History("RuntimeError", unreleased, with_release,
                          SubSeq(cs, 1, n))
             ELSE history_loop_forgets(
                      cs, n + 1, all_git_tags_and_versions, TRUE, version,
                      unreleased,
                      [with_release EXCEPT ![k].elements =
                           append(@, commit_type, parse_result)])

RECURSIVE history_loop(_, _, _, _, _, _, _)
history_loop(cs, n, all_git_tags_and_versions, is_commit_released, the_version, unreleased, released_) ==
    IF n > Len(cs) THEN History("ok", unreleased, released_, cs)
    ELSE LET commit == cs[n]
             parse_result == parse(commit)
             commit_type == IF parse_result.kind = "ParseError" THEN "unknown"
                            ELSE parse_result.type
             i == first_match(all_git_tags_and_versions, commit)
             is_released == is_commit_released \/ i # 0
             version == IF i # 0 THEN all_git_tags_and_versions[i].version
                        ELSE the_version
             with_release == IF i # 0 THEN setdefault(released_, version)
                             ELSE released_
             k == CHOOSE j \in DOMAIN with_release :
                      with_release[j].version = version
         IN  IF ~is_released
             THEN history_loop(cs, n + 1, all_git_tags_and_versions, FALSE,
                               version, append(unreleased, commit_type, parse_result),
                               with_release)
             ELSE IF version = None
             THEN History("RuntimeError", unreleased, with_release,
                          SubSeq(cs, 1, n))
             ELSE history_loop(
                      cs, n + 1, all_git_tags_and_versions, TRUE, version,
                      unreleased,
                      [with_release EXCEPT ![k].elements =
                           append(@, commit_type, parse_result)])

release_history ==
    LET tvs == tags_and_versions(tags)
    IN  IF tvs.status # "ok" THEN History(tvs.status, EmptyDict, <<>>, <<>>)
        ELSE history_loop(iter_commits, 1, tvs.value, FALSE, None,
                          EmptyDict, <<>>)

\* ------------------------------------------------------------ the system
Tokens == {"alpha", "rc"}

\* The configurations of a run; outside prerelease mode the token is the
\* default one.
Configs ==
    {[prerelease |-> TRUE, major_on_zero |-> m, prerelease_token |-> t] :
         m \in BOOLEAN, t \in Tokens}
    \cup {[prerelease |-> FALSE, major_on_zero |-> m, prerelease_token |-> "rc"] :
              m \in BOOLEAN}

\* Messages of the commits made on the active branch; the first commit of
\* the repository is a chore.
Messages ==
    {Message("feat", FALSE, <<>>), Message("fix", FALSE, <<>>),
     Message("feat", TRUE, <<>>), Message("Merge", FALSE, <<>>)}

\* Messages of the commits made on other branches.
BranchMessages == {Message("fix", FALSE, <<>>)}

\* Names a user gives to version tags.
TagNames ==
    {TagName("v", Version(0, 1, 0, "", 0)), TagName("v", Version(1, 0, 0, "", 0)),
     TagName("v", Version(1, 0, 1, "rc", 1))}

\* Names used to exercise the tag index on its own: more version tags and
\* two names that are not version tags under tag_format.
IndexTagNames ==
    TagNames \cup
    {TagName("nightly-", Version(1, 0, 0, "", 0)),
     TagName("v", Version(1, 0, 1, "rc", 2)), TagName("v", Version(1, 0, 1, "alpha", 1)),
     TagName("v", Version(1, 0, 1, "", 0)), TagName("v", Version(0, 2, 0, "", 0)),
     TagName("v", Version(1, 1, 0, "rc", 1)), TagName("release/", Version(2, 0, 0, "", 0))}

NoRun ==
    Raise("none", FALSE, FALSE, "rc") @@
    [rerun |-> FALSE, previous |-> None,
     release |-> [committed |-> FALSE, tagged |-> FALSE]]
NoHistory == History("none", EmptyDict, <<>>, <<>>)
NoIndex == [status |-> "none", value |-> <<>>]
NoCall == [op |-> "none"]

Init ==
    /\ commits = <<[parents |-> <<>>, message |-> Message("chore", FALSE, <<>>),
                    committed_date |-> 1]>>
    /\ head = 1
    /\ tags = {}
    /\ run = NoRun
    /\ hist = NoHistory
    /\ tv = NoIndex
    /\ call = NoCall
    /\ origin = [head |-> head, tags |-> tags]
    /\ written = <<>>

Idle == run' = NoRun /\ hist' = NoHistory /\ tv' = NoIndex

\* The repository is followed through a release, made or failed at the
\* tag, up to the run that comes after it; commits and tags are made while
\* no release is being followed.
Releasing == run.status \in {"released", "bump_failed"} \/ run.rerun

\* git commit on the active branch. The commits of this repository are made
\* one at a time, each a second after the one before.
Commit(m) ==
    /\ Len(commits) < MaxCommits
    /\ ~Releasing
    /\ commits' = Append(commits, [parents |-> <<head>>, message |-> m,
                                   committed_date |-> commits[Len(commits)].committed_date + 1])
    /\ head' = Len(commits) + 1
    /\ UNCHANGED <<tags, call, origin, written>>
    /\ Idle

\* A commit made on another branch, on top of commit p.
BranchCommit(p, m) ==
    /\ Len(commits) < MaxCommits
    /\ ~Releasing
    /\ commits' = Append(commits, [parents |-> <<p>>, message |-> m,
                                   committed_date |-> commits[Len(commits)].committed_date + 1])
    /\ UNCHANGED <<head, tags, call, origin, written>>
    /\ Idle

\* git tag <name> <c>
Tag(name, c) ==
    /\ Cardinality(tags) < MaxTags
    /\ ~Releasing
    /\ \A t \in tags : t.name # name
    /\ tags' = tags \cup {[name |-> name, commit |-> c]}
    /\ UNCHANGED <<commits, head, call, origin, written>>
    /\ Idle

\* A run of next_version; after a release, made or failed at the tag, it
\* is run again with the configuration of the release.
NextVersion(prerelease, major_on_zero, prerelease_token) ==
    /\ run.status \in {"none", "released", "bump_failed"}
    /\ run.status # "none" =>
           /\ run.prerelease = prerelease
           /\ run.major_on_zero = major_on_zero
           /\ run.prerelease_token = prerelease_token
    /\ run' = next_version(prerelease, major_on_zero, prerelease_token) @@
              [rerun |-> run.status # "none",
               previous |-> IF run.status # "none" THEN run.version ELSE None,
               release |-> IF run.status # "none" THEN run.release ELSE NoRun.release]
    /\ hist' = NoHistory
    /\ tv' = NoIndex
    /\ UNCHANGED <<commits, head, tags, call, origin, written>>

\* Mutant: the tag is made before the version files are written and committed.
bump_version_tag_first(version_source, commit_version_number, tag_commit) ==
    IF version_source = "tag_only" THEN <<"tag_new_version">>
    ELSE (IF version_source = "tag" \/ tag_commit
          THEN <<"tag_new_version">> ELSE <<>>)
         \o <<"set_new_version">>
         \o (IF commit_version_number \/ version_source = "commit"
             THEN <<"commit_new_version">> ELSE <<>>)

\* bump_version: the calls it makes, in order.
bump_version(version_source, commit_version_number, tag_commit) ==
    IF version_source = "tag_only" THEN <<"tag_new_version">>
    ELSE <<"set_new_version">>
         \o (IF commit_version_number \/ version_source = "commit"
             THEN <<"commit_new_version">> ELSE <<>>)
         \o (IF version_source = "tag" \/ tag_commit
             THEN <<"tag_new_version">> ELSE <<>>)

\* The message of the commit commit_new_version makes: its subject is the
\* version, which is not "type: subject", and a line on the tool follows.
COMMIT_MESSAGE ==
    Message("{version}", FALSE,
            <<Paragraph("", "Automatically generated by python-semantic-release")>>)

\* bump_version for the version next_version returned, on the repository:
\* set_new_version writes the version files; commit_new_version commits
\* them on the active branch, so HEAD moves; tag_new_version tags HEAD as
\* it is then, and raises when the repository has a tag of that name: what
\* was written and committed before stays, no tag is made and the
\* exception leaves bump_version (status "bump_failed"). Nothing is pushed.
\* run.release records whether a commit and a tag were made.
BumpVersion(version_source, commit_version_number, tag_commit) ==
    LET steps == bump_version(version_source, commit_version_number, tag_commit)
        wrote == \E i \in DOMAIN steps : steps[i] = "set_new_version"
        committed == \E i \in DOMAIN steps : steps[i] = "commit_new_version"
        raised == /\ \E i \in DOMAIN steps : steps[i] = "tag_new_version"
                  /\ \E t \in tags : t.name = as_tag(run.version)
        tagged == /\ \E i \in DOMAIN steps : steps[i] = "tag_new_version"
                  /\ \A t \in tags : t.name # as_tag(run.version)
        new_head == IF committed THEN Len(commits) + 1 ELSE head
    IN  /\ run.status = "ok"
        /\ run.level_bump > NO_RELEASE
        /\ wrote => Len(written) < MaxWritten
        /\ committed => Len(commits) < MaxCommits
        /\ tagged => Cardinality(tags) < MaxTags
        /\ written' = IF wrote THEN Append(written, run.version) ELSE written
        /\ commits' = IF committed
                      THEN Append(commits, [parents |-> <<head>>,
                                            message |-> COMMIT_MESSAGE,
                                            committed_date |-> commits[Len(commits)].committed_date + 1])
                      ELSE commits
        /\ head' = new_head
        /\ tags' = IF tagged
                   THEN tags \cup {[name |-> as_tag(run.version), commit |-> new_head]}
                   ELSE tags
        /\ run' = [run EXCEPT !.status = IF raised THEN "bump_failed" ELSE "released",
                              !.release = [committed |-> committed, tagged |-> tagged]]
        /\ UNCHANGED <<hist, tv, call, origin>>

ReleaseHistory ==
    /\ hist.status = "none"
    /\ ~Releasing
    /\ hist' = release_history
    /\ run' = NoRun
    /\ tv' = NoIndex
    /\ UNCHANGED <<commits, head, tags, call, origin, written>>

TagsAndVersions ==
    /\ tv.status = "none"
    /\ tv' = tags_and_versions(tags)
    /\ run' = NoRun
    /\ hist' = NoHistory
    /\ UNCHANGED <<commits, head, tags, call, origin, written>>

Next ==
    \/ \E m \in Messages : Commit(m)
    \/ \E p \in 1..Len(commits), m \in BranchMessages : p # head /\ BranchCommit(p, m)
    \/ \E name \in TagNames, c \in 1..Len(commits) : Tag(name, c)
    \/ \E cfg \in Configs :
            NextVersion(cfg.prerelease, cfg.major_on_zero, cfg.prerelease_token)
    \/ \E version_source \in {"commit", "tag", "tag_only"},
          commit_version_number \in BOOLEAN, tag_commit \in BOOLEAN :
            BumpVersion(version_source, commit_version_number, tag_commit)
    \/ ReleaseHistory

Spec == Init /\ [][Next]_vars

\* The tag index on its own: a repository of one commit that collects tags.
IndexTag(name) ==
    /\ Cardinality(tags) < MaxIndexTags
    /\ \A t \in tags : t.name # name
    /\ tags' = tags \cup {[name |-> name, commit |-> head]}
    /\ UNCHANGED <<commits, head, call, origin, written>>
    /\ Idle

NextIndex ==
    \/ \E name \in IndexTagNames : IndexTag(name)
    \/ TagsAndVersions

SpecIndex == Init /\ [][NextIndex]_vars

\* Repositories with merges and with unrelated histories: a criss-cross
\* merge (4 and 5 both merge 2 and 3, which have two best common ancestors),
\* a history with a second root (2), on which repo.merge_base can return no
\* commit, and a branch merged back into the active branch.
Commit_(parents, m) == [parents |-> parents, message |-> m]

\* The length of the longest line of parents from commit c of a history (a
\* list of commits without dates) down to a root.
RECURSIVE generation(_, _)
generation(history, c) ==
    LET above == {generation(history, history[c].parents[k]) :
                      k \in DOMAIN history[c].parents}
    IN  IF above = {} THEN 1
        ELSE 1 + (CHOOSE g \in above : \A h \in above : h <= g)

\* The committer dates a history is given: every commit a second after the
\* one before, all commits made within one second, and one second per
\* generation, so that the two sides of a merge are of one date.
Dates(history) ==
    {[c \in DOMAIN history |-> c], [c \in DOMAIN history |-> 1],
     [c \in DOMAIN history |-> generation(history, c)]}

dated(history, dates) ==
    [c \in DOMAIN history |-> history[c] @@ [committed_date |-> dates[c]]]

MergeRepos ==
    LET histories ==
            {<<Commit_(<<>>, m), Commit_(<<1>>, m), Commit_(<<1>>, m),
               Commit_(<<2, 3>>, m), Commit_(<<3, 2>>, m)>> : m \in BranchMessages}
            \cup {<<Commit_(<<>>, m), Commit_(<<>>, m), Commit_(<<2>>, m)>> :
                      m \in BranchMessages}
            \cup {<<Commit_(<<>>, m), Commit_(<<1>>, m), Commit_(<<1>>, m),
                    Commit_(<<2, 3>>, m)>> : m \in BranchMessages}
    IN  UNION {{dated(history, dates) : dates \in Dates(history)} :
                   history \in histories}

InitMergeBase ==
    /\ commits \in MergeRepos
    /\ head \in DOMAIN commits
    /\ tags = {}
    /\ run = NoRun
    /\ hist = NoHistory
    /\ tv = NoIndex
    /\ call = NoCall
    /\ origin = [head |-> head, tags |-> tags]
    /\ written = <<>>

NextMergeBase ==
    \/ \E name \in TagNames, c \in 1..Len(commits) : Tag(name, c)
    \/ \E cfg \in Configs :
            NextVersion(cfg.prerelease, cfg.major_on_zero, cfg.prerelease_token)

SpecMergeBase == InitMergeBase /\ [][NextMergeBase]_vars

\* ------------------------------------------------- select_branch_options
\* Branch names are character sequences; a match pattern is held as the set
\* of literal alternatives it consists of ("(main|master)" is two
\* alternatives, ".*" is the empty alternative).
IsPrefix(p, s) == Len(p) <= Len(s) /\ SubSeq(s, 1, Len(p)) = p

\* re.match(pattern, string): the pattern matches at the start of the
\* string; the string may go on after the match.
re_match(pattern, string) == \E alternative \in pattern : IsPrefix(alternative, string)

BranchConfig(match, prerelease_token, prerelease) ==
    [match |-> match, prerelease_token |-> prerelease_token,
     prerelease |-> prerelease]

\* Mutant: the loop does not return at the first match, the last match wins.
RECURSIVE select_from_last(_, _, _)
select_from_last(choices, active_branch, n) ==
    IF n > Len(choices)
    THEN [status |-> "NotAReleaseBranch", value |-> BranchConfig({}, "", FALSE)]
    ELSE LET later == select_from_last(choices, active_branch, n + 1)
         IN  IF later.status = "ok" THEN later
             ELSE IF re_match(choices[n].options.match, active_branch)
             THEN [status |-> "ok", value |-> choices[n].options]
             ELSE later

\* The loop over choices.items() from its n-th item on; choices is the
\* mapping in declaration order, a sequence of (group, options) items.
RECURSIVE select_from(_, _, _)
select_from(choices, active_branch, n) ==
    IF n > Len(choices)
    THEN [status |-> "NotAReleaseBranch", value |-> BranchConfig({}, "", FALSE)]
    ELSE IF re_match(choices[n].options.match, active_branch)
    THEN [status |-> "ok", value |-> choices[n].options]
    ELSE select_from(choices, active_branch, n + 1)

select_branch_options(choices, active_branch) == select_from(choices, active_branch, 1)

\* What main is run with. subcommand is ctx.invoked_subcommand; in_repo says
\* whether the working directory is inside a Git repository; config_file is
\* the state of the configuration file: the one -c names, or pyproject.toml
\* when there is no -c.
\*   "ok"                 it holds a configuration that RawConfig accepts
\*   "option_missing"     -c names a path that does not exist
\*   "missing"            no -c, and there is no pyproject.toml
\*   "directory"          the path is a directory
\*   "undecodable"        the file is not UTF-8 text
\*   "unsupported_suffix" -c names a file that is neither .toml nor .json
\*   "toml_invalid"       a .toml file that is not TOML
\*   "toml_no_key"        a .toml file without the table tool, or whose
\*                        table tool has no key semantic_release
\*   "toml_not_table"     a .toml file whose key tool is not a table
\*   "json_invalid"       a .json file that is not JSON
\*   "json_no_key"        a .json file holding an object without the key
\*                        semantic_release
\*   "json_not_object"    a .json file holding a list, a string or a number
\*   "wrong_type"         a setting of a type RawConfig.parse_obj rejects
ConfigFiles ==
    {"ok", "option_missing", "missing", "directory", "undecodable",
     "unsupported_suffix", "toml_invalid", "toml_no_key", "toml_not_table",
     "json_invalid", "json_no_key", "json_not_object", "wrong_type"}

Invocation(subcommand, in_repo, config_file) ==
    [subcommand |-> subcommand, in_repo |-> in_repo, config_file |-> config_file]

\* How a run of main ends: ctx.fail and a value click rejects are usage
\* errors, exit code 2; an exception no handler catches ends the process
\* with exit code 1.
Failed(exit_code, exception) ==
    [exit_code |-> exit_code, failed |-> exception, obj |-> "none"]

\* _read_toml and the reading of a .json file: what reading the
\* configuration file raises, "" when it returns the configuration.
\* _read_toml turns KeyError and TOMLKitError into InvalidConfiguration and
\* lets every other exception through.
read_config(config_file) ==
    CASE config_file = "missing" -> "FileNotFoundError"
      [] config_file = "directory" -> "IsADirectoryError"
      [] config_file = "undecodable" -> "UnicodeDecodeError"
      [] config_file = "unsupported_suffix" -> "UsageError"
      [] config_file \in {"toml_invalid", "toml_no_key"} -> "InvalidConfiguration"
      [] config_file \in {"toml_not_table", "json_not_object"} -> "TypeError"
      [] config_file = "json_invalid" -> "JSONDecodeError"
      [] config_file = "json_no_key" -> "KeyError"
      [] OTHER -> ""

\* main: click checks that the path of -c exists before main is entered;
\* generate-config returns before anything is set up; otherwise the
\* repository is opened, the configuration is read and parsed, and the
\* runtime context is built from it for the active branch.
\* FileNotFoundError and InvalidConfiguration from reading, and
\* InvalidConfiguration from building the context (so also its subclass
\* NotAReleaseBranch), end in ctx.fail; every other exception is not caught.
\* declarations_ok says whether the version declarations are well-formed.
main(invocation, choices, active_branch, declarations_ok) ==
    LET raised == read_config(invocation.config_file)
        branch_config == select_branch_options(choices, active_branch)
    IN  IF invocation.config_file = "option_missing"
        THEN Failed(2, "BadParameter")
        ELSE IF invocation.subcommand = "generate-config"
        THEN [exit_code |-> 0, failed |-> "", obj |-> "none"]
        ELSE IF ~invocation.in_repo
        THEN Failed(2, "InvalidGitRepositoryError")
        ELSE IF raised \in {"FileNotFoundError", "InvalidConfiguration", "UsageError"}
        THEN Failed(2, raised)
        ELSE IF raised # ""
        THEN Failed(1, raised)
        ELSE IF invocation.config_file = "wrong_type"
        THEN Failed(1, "ValidationError")
        ELSE IF branch_config.status # "ok"
        THEN Failed(2, branch_config.status)
        ELSE IF ~declarations_ok
        THEN Failed(2, "InvalidConfiguration")
        ELSE [exit_code |-> 0, failed |-> "", obj |-> branch_config.value]

branch_main == <<"m", "a", "i", "n">>
branch_maint == <<"m", "a", "i", "n", "t">>
branch_master == <<"m", "a", "s", "t", "e", "r">>
branch_dev == <<"d", "e", "v">>

BranchNames == {branch_main, branch_maint, branch_dev}

\* "(main|master)", "maint", "dev" and ".*"
Patterns == {{branch_main, branch_master}, {branch_maint}, {branch_dev}, {<<>>}}

Groups == {"g" \o ToString(i) : i \in 1..MaxGroups}

BranchConfigs == {BranchConfig(p, "rc", pre) : p \in Patterns, pre \in BOOLEAN}

\* The branches mappings: up to MaxGroups items with distinct group names.
Choices ==
    UNION {{c \in [1..n -> [group : Groups, options : BranchConfigs]] :
                \A i, j \in 1..n : i < j => c[i].group # c[j].group} :
           n \in 0..MaxGroups}

SelectBranchOptions(choices, active_branch) ==
    /\ call = NoCall
    /\ call' = [op |-> "select_branch_options", choices |-> choices,
                active_branch |-> active_branch,
                result |-> select_branch_options(choices, active_branch)]
    /\ UNCHANGED <<commits, head, tags, run, hist, tv, origin, written>>

\* The runs of main: a release command in a repository with each state of
\* the configuration file, a release command outside a repository, and
\* generate-config with and without a repository and a configuration.
Invocations ==
    {Invocation("version", TRUE, f) : f \in ConfigFiles}
    \cup {Invocation("version", FALSE, "ok"),
          Invocation("version", FALSE, "option_missing"),
          Invocation("generate-config", TRUE, "ok"),
          Invocation("generate-config", FALSE, "missing"),
          Invocation("generate-config", FALSE, "option_missing")}

Main(invocation, choices, active_branch, declarations_ok) ==
    /\ call = NoCall
    /\ call' = [op |-> "main", invocation |-> invocation, choices |-> choices,
                active_branch |-> active_branch,
                declarations_ok |-> declarations_ok,
                result |-> main(invocation, choices, active_branch, declarations_ok)]
    /\ UNCHANGED <<commits, head, tags, run, hist, tv, origin, written>>

\* One call on one input per behaviour.
NextBranch ==
    \/ /\ call = NoCall
       /\ \E choices \in Choices, active_branch \in BranchNames :
              SelectBranchOptions(choices, active_branch)
    \/ /\ call = NoCall
       /\ \E invocation \in Invocations, choices \in Choices,
             active_branch \in BranchNames, declarations_ok \in BOOLEAN :
              Main(invocation, choices, active_branch, declarations_ok)

SpecBranch == Init /\ [][NextBranch]_vars

\* --------------------------------------------------- the commit parsers
\* The parsers called on one commit, and the version algorithm and the
\* release history run over a repository whose HEAD carries that commit.
Paragraphs ==
    {Paragraph("BREAKING CHANGE", "api"), Paragraph("BREAKING-CHANGE", "cli"),
     Paragraph("breaking change", "api"), Paragraph("BREAKING CHANGE", ""),
     Paragraph("", "details"), Paragraph(patch_tag, "details"),
     Paragraph(minor_tag, "details")}

Texts == UNION {[1..n -> Paragraphs] : n \in 0..MaxParagraphs}

ParserMessages ==
    {Message(type, break, text) :
        type \in {"feat", "fix", "chore", "Merge", "", minor_tag, patch_tag},
        break \in BOOLEAN, text \in Texts}

InitParser ==
    /\ commits \in {dated(<<Commit_(<<>>, Message("chore", FALSE, <<>>)),
                             Commit_(<<1>>, m)>>, <<1, 2>>) : m \in ParserMessages}
    /\ head = 2
    /\ tags = {}
    /\ run = NoRun
    /\ hist = NoHistory
    /\ tv = NoIndex
    /\ call = NoCall
    /\ origin = [head |-> head, tags |-> tags]
    /\ written = <<>>

\* AngularCommitParser.parse(commit) on the HEAD commit.
Parse ==
    /\ call' = [op |-> "parse", parser |-> "angular", commit |-> head,
                result |-> parse(head)]
    /\ UNCHANGED <<commits, head, tags, run, hist, tv, origin, written>>

\* TagCommitParser.parse(commit) on the HEAD commit.
TagParse ==
    /\ call' = [op |-> "parse", parser |-> "tag", commit |-> head,
                result |-> tag_parse(head)]
    /\ UNCHANGED <<commits, head, tags, run, hist, tv, origin, written>>

\* A caller invokes raise_error() on the ParseError a parser returned.
RaiseError ==
    /\ call.op = "parse"
    /\ call.result.kind = "ParseError"
    /\ call' = [op |-> "raise_error", parser |-> call.parser,
                commit |-> call.commit, result |-> raise_error(call.result)]
    /\ UNCHANGED <<commits, head, tags, run, hist, tv, origin, written>>

\* One call per behaviour, and raise_error() on what it returned.
Fresh == call = NoCall /\ run = NoRun /\ hist = NoHistory

NextParser ==
    \/ Fresh /\ Parse
    \/ Fresh /\ TagParse
    \/ /\ Fresh
       /\ \E cfg \in Configs :
              NextVersion(cfg.prerelease, cfg.major_on_zero, cfg.prerelease_token)
    \/ Fresh /\ ReleaseHistory
    \/ RaiseError

SpecParser == InitParser /\ [][NextParser]_vars

\* ----------------------------------------------------------- Version.bump
\* Version.bump called on the versions with small numbers, with and without
\* a prerelease part and build metadata.
Versions ==
    {v \in {with_build(Version(major, minor, patch, token, revision), build) :
                major \in 0..1, minor \in 0..1, patch \in 0..1,
                token \in {""} \cup Tokens, revision \in 0..MaxRevision,
                build \in {"", "build.1"}} :
        v.prerelease_token = "" => v.prerelease_revision = 0}

Bump(v, level, prerelease, prerelease_token) ==
    /\ call' = [op |-> "bump", v |-> v, level |-> level,
                prerelease |-> prerelease, prerelease_token |-> prerelease_token,
                result |-> bump(v, level, prerelease, prerelease_token)]
    /\ UNCHANGED <<commits, head, tags, run, hist, tv, origin, written>>

NextVersions ==
    /\ call = NoCall
    /\ \E v \in Versions, level \in LevelBump, prerelease \in BOOLEAN,
          prerelease_token \in Tokens :
            Bump(v, level, prerelease, prerelease_token)

SpecVersion == Init /\ [][NextVersions]_vars

\* ------------------------------------------------------------ HVCS client
\* The clients: the base class, which supports no optional operation, and
\* Gitlab, which overrides some of them. Results are written as Python
\* prints them.
Clients == {"HvcsBase", "Gitlab"}

Operations ==
    {"compare_url", "check_build_status", "upload_dists", "create_release",
     "get_release_id_by_tag", "edit_release_changelog",
     "create_or_update_release", "asset_upload_url", "upload_asset",
     "remote_url", "commit_hash_url", "pull_request_url"}

\* The operations a client class defines itself.
overrides(client) ==
    IF client = "Gitlab"
    THEN {"check_build_status", "create_release", "remote_url",
          "commit_hash_url", "pull_request_url"}
    ELSE {}

\* _not_supported(method): the wrapper warns and returns True.
_not_supported(operation) ==
    [status |-> "returned", value |-> "True", warned |-> TRUE]

\* Gitlab.check_build_status from the n-th job status on: False at the first
\* pending job or failed job that may not fail, True after the last job.
RECURSIVE check_build_status(_, _)
check_build_status(jobs, n) ==
    IF n > Len(jobs) THEN "True"
    ELSE IF jobs[n].status = "pending" THEN "False"
    ELSE IF jobs[n].status = "failed" /\ ~jobs[n].allow_failure THEN "False"
    ELSE check_build_status(jobs, n + 1)

\* Gitlab.create_release: True, or False when GitLab refuses to create it.
create_release(created) == IF created THEN "True" ELSE "False"

\* The domain of a client built without hvcs_domain where the environment
\* names no CI server, and the owner and name parsed from the remote URL.
hvcs_domain == "gitlab.com"
owner == "owner"
repo_name == "repo"

\* What a client is built with and remote_url is called with: the remote
\* URL of the repository, the token the environment holds under token_var
\* ("" when it holds none or an empty one: both are false in Python), and
\* the use_token argument.
Givens ==
    [_remote_url : {"git@gitlab.com:owner/repo.git",
                    "https://gitlab.com/owner/repo.git"},
     token : {"", "glpat"}, use_token : BOOLEAN]

commit_hash_url(commit_hash) ==
    "https://" \o hvcs_domain \o "/" \o owner \o "/" \o repo_name \o "/-/commit/" \o commit_hash

pull_request_url(pr_number) ==
    "https://" \o hvcs_domain \o "/" \o owner \o "/" \o repo_name \o "/-/issues/" \o pr_number

\* Gitlab.remote_url(use_token): the URL the client was built with unless
\* there is a token and it is to be used; then the token URL.
remote_url(given) ==
    IF ~(given.token # "" /\ given.use_token) THEN given._remote_url
    ELSE "https://gitlab-ci-token:" \o given.token \o "@" \o hvcs_domain
         \o "/" \o owner \o "/" \o repo_name \o ".git"

\* client.operation(...) on a client built from given: remote is what the
\* remote side holds, the job statuses of the ref and whether it accepts a
\* new release. warned tells whether a warning was issued; the caller gets
\* value.
hvcs_call(client, operation, given, remote) ==
    IF operation \notin overrides(client) THEN _not_supported(operation)
    ELSE [status |-> "returned", warned |-> FALSE,
          value |-> CASE operation = "check_build_status" ->
                            check_build_status(remote.jobs, 1)
                      [] operation = "create_release" -> create_release(remote.created)
                      [] operation = "remote_url" -> remote_url(given)
                      [] operation = "commit_hash_url" -> commit_hash_url("abc123")
                      [] operation = "pull_request_url" -> pull_request_url("12")]

Jobs ==
    {[status |-> "success", allow_failure |-> FALSE],
     [status |-> "pending", allow_failure |-> FALSE],
     [status |-> "failed", allow_failure |-> FALSE],
     [status |-> "failed", allow_failure |-> TRUE]}

Remotes ==
    [jobs : UNION {[1..n -> Jobs] : n \in 0..MaxJobs}, created : BOOLEAN]

\* ------------------------------------------------------ changelog context
\* A jinja2 environment: its globals and its filters, each filter name
\* mapped to what implements it.
Filter(client, operation) == [client |-> client, operation |-> operation]

Environments ==
    {[globals |-> [n \in {} |-> 0], filters |-> f] :
        f \in {[n \in {} |-> 0],
               [n \in {"upper"} |-> Filter("jinja2", "upper")],
               [n \in {"upper", "commit_hash_url"} |-> Filter("jinja2", n)]}}

Histories == {[unreleased |-> u, released |-> r] : u \in 0..1, r \in 0..1}

\* make_changelog_context(hvcs_client, release_history)
make_changelog_context(hvcs_client, history) ==
    [repo_name |-> repo_name, repo_owner |-> owner, history |-> history,
     functions |-> <<Filter(hvcs_client, "pull_request_url"),
                     Filter(hvcs_client, "commit_hash_url")>>]

\* ChangelogContext.bind_to_environment(env)
bind_to_environment(context, env) ==
    LET names == {context.functions[i].operation : i \in DOMAIN context.functions}
    IN  [globals |-> [n \in DOMAIN env.globals \cup {"context"} |->
                        IF n = "context" THEN context ELSE env.globals[n]],
         filters |-> [n \in DOMAIN env.filters \cup names |->
                        IF n \in names
                        THEN CHOOSE f \in {context.functions[i] : i \in DOMAIN context.functions} :
                                 f.operation = n
                        ELSE env.filters[n]]]

HvcsCall(client, operation, given, remote) ==
    /\ call' = [op |-> "hvcs", client |-> client, operation |-> operation,
                given |-> given, remote |-> remote,
                result |-> hvcs_call(client, operation, given, remote)]
    /\ UNCHANGED <<commits, head, tags, run, hist, tv, origin, written>>

BindToEnvironment(client, history, env) ==
    /\ call' = [op |-> "bind_to_environment", client |-> client,
                history |-> history, env |-> env,
                result |-> bind_to_environment(
                               make_changelog_context(client, history), env)]
    /\ UNCHANGED <<commits, head, tags, run, hist, tv, origin, written>>

NextHvcs ==
    \/ /\ call = NoCall
       /\ \E client \in Clients, operation \in Operations, given \in Givens,
             remote \in Remotes :
              HvcsCall(client, operation, given, remote)
    \/ /\ call = NoCall
       /\ \E client \in Clients, history \in Histories, env \in Environments :
              BindToEnvironment(client, history, env)

SpecHvcs == Init /\ [][NextHvcs]_vars

\* ------------------------------------------- the version/publish commands
\* The steps of a command that act on the working tree, the repository or
\* the remote, in the order the command reaches them. A step that raises
\* ends the command unless the command catches the exception: log holds the
\* steps that were completed, raised the step whose exception left the
\* command.
Executed(log, raised, returned) ==
    [log |-> log, raised |-> raised, returned |-> returned]

\* The calls of plan made one after the other; the step fail_at raises.
run_steps(plan, fail_at, returned) ==
    IF \E i \in DOMAIN plan : plan[i] = fail_at
    THEN LET k == CHOOSE i \in DOMAIN plan :
                      plan[i] = fail_at /\ \A j \in DOMAIN plan : plan[j] = fail_at => i <= j
         IN  Executed(SubSeq(plan, 1, k - 1), fail_at, "raised")
    ELSE Executed(plan, "", returned)

\* Mutant: noop is not looked at.
should_bump_version_despite_noop(current_version, current_release_version, new_version, prerelease, check_build_status_, build_ok, retry, noop) ==
    LET match_version == IF prerelease THEN current_version ELSE current_release_version
    IN  IF new_version = match_version /\ ~retry THEN FALSE
        ELSE IF check_build_status_ /\ ~build_ok THEN FALSE
        ELSE TRUE

\* should_bump_version; build_ok is what do_check_build_status answers.
should_bump_version(current_version, current_release_version, new_version, prerelease, check_build_status_, build_ok, retry, noop) ==
    LET match_version == IF prerelease THEN current_version ELSE current_release_version
    IN  IF new_version = match_version /\ ~retry THEN FALSE
        ELSE IF noop THEN FALSE
        ELSE IF check_build_status_ /\ ~build_ok THEN FALSE
        ELSE TRUE

\* should_build: there is a build command (None and "" are false, and
\* "false" switches it off) and something to upload the build to.
should_build(upload_to_repository, upload_to_pypi, upload_to_release, build_command) ==
    /\ build_command # "" /\ build_command # "false"
    /\ (upload_to_repository /\ upload_to_pypi) \/ upload_to_release

\* should_remove_dist
should_remove_dist(remove_dist, upload_to_repository, upload_to_pypi, upload_to_release, build_command) ==
    /\ remove_dist
    /\ should_build(upload_to_repository, upload_to_pypi, upload_to_release, build_command)

\* ArtifactRepo.upload_enabled
upload_enabled(upload_to_repository, upload_to_pypi) ==
    upload_to_repository /\ upload_to_pypi

\* version(config, retry, noop, prerelease): a GitError while the current
\* version is read makes it return False, any other exception leaves it;
\* should_bump_version is called without retry. An exception of
\* bump_version leaves the command.
version(config, inputs, retry, noop) ==
    IF inputs.fail_at = "get_current_version"
    THEN (IF inputs.exception = "GitError" THEN Executed(<<>>, "", "False")
          ELSE Executed(<<>>, "get_current_version", "raised"))
    ELSE IF ~should_bump_version(inputs.current_version,
                                 inputs.current_release_version,
                                 inputs.new_version, inputs.prerelease,
                                 config.check_build_status, inputs.build_ok,
                                 FALSE, noop)
    THEN Executed(<<>>, "", "False")
    ELSE IF retry THEN Executed(<<>>, "", "True")
    ELSE run_steps(bump_version(config.version_source,
                                config.commit_version_number, config.tag_commit),
                   inputs.fail_at, "True")

\* publish after push_new_version: the distributions are built when
\* should_build says so, after the old ones were removed if remove_dist is
\* set; they are uploaded to the artifact repository when that is enabled;
\* with a token the changelog is posted, and a GitError of post_changelog
\* is logged and the command goes on; the distributions are uploaded to
\* the release when upload_to_release is set and there is a token; the
\* distributions are removed when should_remove_dist says so.
after_push(config, inputs) ==
    (IF should_build(config.upload_to_repository, config.upload_to_pypi,
                     config.upload_to_release, config.build_command)
     THEN (IF config.remove_dist THEN <<"remove_dists">> ELSE <<>>)
          \o <<"build_dists">>
     ELSE <<>>)
    \o (IF upload_enabled(config.upload_to_repository, config.upload_to_pypi)
        THEN <<"upload">> ELSE <<>>)
    \o (IF inputs.token_checked
           /\ ~(inputs.fail_at = "post_changelog" /\ inputs.exception = "GitError")
        THEN <<"post_changelog">> ELSE <<>>)
    \o (IF config.upload_to_release /\ inputs.token_checked
        THEN <<"upload_to_release">> ELSE <<>>)
    \o (IF should_remove_dist(config.remove_dist, config.upload_to_repository,
                              config.upload_to_pypi, config.upload_to_release,
                              config.build_command)
        THEN <<"remove_dists">> ELSE <<>>)

\* publish(config, retry, noop, prerelease): on a retry the current version
\* is the one to publish and the previous release takes its place. No
\* exception but the GitError of post_changelog is caught.
publish(config, inputs, retry, noop) ==
    LET new_version == IF retry THEN inputs.current_version ELSE inputs.new_version
        current_version ==
            IF retry THEN inputs.previous_release_version ELSE inputs.current_version
        release ==
            should_bump_version(current_version, inputs.current_release_version,
                                new_version, inputs.prerelease,
                                config.check_build_status, inputs.build_ok,
                                retry, noop)
        plan ==
            <<"get_current_version", "ci_checks", "checkout">>
            \o (IF ~release THEN <<>>
                ELSE (IF config.pre_commit_command # ""
                      THEN <<"pre_commit_command">> ELSE <<>>)
                     \o (IF retry THEN <<>>
                         ELSE <<"update_changelog_file", "update_additional_files">>
                              \o bump_version(config.version_source,
                                              config.commit_version_number,
                                              config.tag_commit))
                     \o <<"push_new_version">>
                     \o after_push(config, inputs))
    IN  run_steps(plan, inputs.fail_at, "None")

\* What a completed step does to the working tree, the repository and the
\* remote: set_new_version writes the version into the version files,
\* commit_new_version commits them on the active branch, tag_new_version
\* tags HEAD with the version, push_new_version sends the branch and the
\* tags to the remote. The other steps leave the three alone. A step is
\* completed when it did not raise: which step raises is an input of the
\* commands, whose repository has no tag when they start.
step_effect(repo, step, new_version) ==
    CASE step = "set_new_version" ->
             [repo EXCEPT !.written = Append(@, new_version)]
      [] step = "commit_new_version" ->
             [repo EXCEPT !.commits =
                              Append(@, [parents |-> <<repo.head>>,
                                         message |-> COMMIT_MESSAGE,
                                         committed_date |-> @[Len(@)].committed_date + 1]),
                          !.head = Len(repo.commits) + 1]
      [] step = "tag_new_version" ->
             [repo EXCEPT !.tags = @ \cup {[name |-> as_tag(new_version),
                                              commit |-> repo.head]}]
      [] step = "push_new_version" ->
             [repo EXCEPT !.origin = [head |-> repo.head, tags |-> repo.tags]]
      [] OTHER -> repo

\* The completed steps of a command, applied in their order.
RECURSIVE steps_effect(_, _, _)
steps_effect(repo, log, new_version) ==
    IF log = <<>> THEN repo
    ELSE steps_effect(step_effect(repo, Head(log), new_version), Tail(log), new_version)

\* The configurations that differ in how the version is bumped, with the
\* upload settings of a package that builds and uploads everywhere.
BumpConfigs ==
    [version_source : {"commit", "tag", "tag_only"},
     commit_version_number : BOOLEAN, tag_commit : BOOLEAN,
     check_build_status : BOOLEAN,
     pre_commit_command : {""}, build_command : {"python -m build"},
     upload_to_repository : {TRUE}, upload_to_pypi : {TRUE},
     upload_to_release : {TRUE}, remove_dist : {TRUE}]

\* The configurations that differ in what publish does around the push,
\* with the version committed and tagged. A build command is unset,
\* "false" or a command.
UploadConfigs ==
    [version_source : {"commit"},
     commit_version_number : {TRUE}, tag_commit : {TRUE},
     check_build_status : {FALSE},
     pre_commit_command : {"", "make lint"},
     build_command : {"", "false", "python -m build"},
     upload_to_repository : BOOLEAN, upload_to_pypi : BOOLEAN,
     upload_to_release : BOOLEAN, remove_dist : BOOLEAN]

\* What a command finds: the versions, the build status, whether
\* check_token finds a token, and the step that raises. The exception is a
\* GitError; another one is tried at the two steps a handler surrounds.
CommandInputs ==
    {i \in [current_version : {"1.0.0", "1.1.0-rc.1"},
            current_release_version : {"1.0.0"},
            previous_release_version : {"0.9.0"},
            new_version : {"1.0.0", "1.1.0-rc.1", "1.1.0"}, prerelease : BOOLEAN,
            build_ok : BOOLEAN, token_checked : BOOLEAN,
            fail_at : {"none", "get_current_version", "set_new_version",
                       "commit_new_version", "tag_new_version",
                       "push_new_version", "build_dists", "upload",
                       "post_changelog", "upload_to_release"},
            exception : {"GitError", "OSError"}] :
        i.exception = "OSError" => i.fail_at \in {"get_current_version", "post_changelog"}}

\* semantic-release version: the command and what its completed steps did.
VersionCommand(config, inputs, retry, noop) ==
    /\ Len(commits) < MaxCommits
    /\ Cardinality(tags) < MaxTags
    /\ call' = [op |-> "version", config |-> config, inputs |-> inputs,
                retry |-> retry, noop |-> noop,
                result |-> version(config, inputs, retry, noop)]
    /\ LET after == steps_effect([commits |-> commits, head |-> head, tags |-> tags,
                                  origin |-> origin, written |-> written],
                                 call'.result.log, inputs.new_version)
       IN  /\ commits' = after.commits
           /\ head' = after.head
           /\ tags' = after.tags
           /\ origin' = after.origin
           /\ written' = after.written
    /\ UNCHANGED <<run, hist, tv>>

\* semantic-release publish: the command and what its completed steps did.
PublishCommand(config, inputs, retry, noop) ==
    /\ Len(commits) < MaxCommits
    /\ Cardinality(tags) < MaxTags
    /\ call' = [op |-> "publish", config |-> config, inputs |-> inputs,
                retry |-> retry, noop |-> noop,
                result |-> publish(config, inputs, retry, noop)]
    /\ LET after == steps_effect([commits |-> commits, head |-> head, tags |-> tags,
                                  origin |-> origin, written |-> written],
                                 call'.result.log, inputs.new_version)
       IN  /\ commits' = after.commits
           /\ head' = after.head
           /\ tags' = after.tags
           /\ origin' = after.origin
           /\ written' = after.written
    /\ UNCHANGED <<run, hist, tv>>

\* version reads none of the upload settings. The upload configurations
\* are run where a full release is or is not due, on a build that passed.
NextRelease ==
    \/ /\ call = NoCall
       /\ \E config \in BumpConfigs, inputs \in CommandInputs,
             retry \in BOOLEAN, noop \in BOOLEAN :
              VersionCommand(config, inputs, retry, noop)
    \/ /\ call = NoCall
       /\ \E config \in BumpConfigs, inputs \in CommandInputs,
             retry \in BOOLEAN, noop \in BOOLEAN :
              PublishCommand(config, inputs, retry, noop)
    \/ /\ call = NoCall
       /\ \E config \in UploadConfigs,
             inputs \in {i \in CommandInputs :
                            /\ i.current_version = "1.0.0"
                            /\ i.new_version # "1.1.0-rc.1"
                            /\ ~i.prerelease /\ i.build_ok},
             retry \in BOOLEAN, noop \in BOOLEAN :
              PublishCommand(config, inputs, retry, noop)

SpecRelease == Init /\ [][NextRelease]_vars

\* ------------------------------- _bfs_for_latest_version_in_history alone
\* Repositories whose ancestry holds merge commits: those of MergeRepos and
\* one where the two parents of a merge (5) share an untagged ancestor (2)
\* that has an older ancestor (1), with a commit on top of the merge.
BfsRepos ==
    LET histories ==
            {<<Commit_(<<>>, m), Commit_(<<1>>, m), Commit_(<<2>>, m),
               Commit_(<<2>>, m), Commit_(<<3, 4>>, m), Commit_(<<5>>, m)>> :
                 m \in BranchMessages}
    IN  MergeRepos
        \cup UNION {{dated(history, dates) : dates \in Dates(history)} :
                        history \in histories}

InitBfs ==
    /\ commits \in BfsRepos
    /\ head \in DOMAIN commits
    /\ tags = {}
    /\ run = NoRun
    /\ hist = NoHistory
    /\ tv = NoIndex
    /\ call = NoCall
    /\ origin = [head |-> head, tags |-> tags]
    /\ written = <<>>

\* The full-release pairs next_version hands to the search (lines 180-183).
all_full_release_tags_and_versions ==
    SelectSeq(tags_and_versions(tags).value, LAMBDA p : ~is_prerelease(p.version))

\* _bfs_for_latest_version_in_history(merge_base, full-release pairs)
Bfs(merge_base_) ==
    /\ call' = [op |-> "_bfs_for_latest_version_in_history",
                merge_base |-> merge_base_,
                result |-> _bfs_for_latest_version_in_history(
                               merge_base_, all_full_release_tags_and_versions)]
    /\ UNCHANGED <<commits, head, tags, run, hist, tv, origin, written>>

NextBfs ==
    \/ /\ call = NoCall
       /\ \E name \in TagNames, c \in 1..Len(commits) : Tag(name, c)
    \/ /\ call = NoCall
       /\ \E c \in 1..Len(commits) : Bfs(c)
    \/ /\ call = NoCall
       /\ \E cfg \in Configs :
              NextVersion(cfg.prerelease, cfg.major_on_zero, cfg.prerelease_token)

SpecBfs == InitBfs /\ [][NextBfs]_vars

\* release_history on the repositories with merge commits.
NextMergeHistory ==
    \/ \E name \in TagNames, c \in 1..Len(commits) : Tag(name, c)
    \/ ReleaseHistory

SpecMergeHistory == InitBfs /\ [][NextMergeHistory]_vars

\* ================================================================ claims
\* The version tags of the repository and the levels of a set of commits,
\* read off the repository state directly.
VersionTags == {t \in tags : from_tag(t.name) # None}
FullReleaseTags == {t \in VersionTags : ~is_prerelease(from_tag(t.name))}

LevelsOf(cs) ==
    {parse(c).bump : c \in {d \in cs : parse(d).kind = "ParsedCommit"}}

MaxLevelOf(cs) ==
    IF \E c \in cs : parse(c).kind = "ParsedCommit" /\ parse(c).bump = MAJOR THEN MAJOR
    ELSE IF \E c \in cs : parse(c).kind = "ParsedCommit" /\ parse(c).bump = MINOR THEN MINOR
    ELSE IF \E c \in cs : parse(c).kind = "ParsedCommit" /\ parse(c).bump = PATCH THEN PATCH
    ELSE NO_RELEASE

Range(seq) == {seq[i] : i \in DOMAIN seq}

\* C1: when the highest bump among the commits next_version walked is
\* NO_RELEASE (no commits, only parse errors, only NO_RELEASE commits), the
\* version returned is latest_version as found, whatever the mode.
C1_NoReleaseReturnsLatestVersion ==
    (run.status = "ok" /\ MaxLevelOf(Range(run.walked)) = NO_RELEASE)
        => run.version = run.latest_version

C1_Witness ==
    /\ run.status = "ok"
    /\ run.prerelease
    /\ run.latest_version = Version(1, 0, 1, "rc", 1)
    /\ \E c \in Range(run.walked) : parse(c).kind = "ParseError"
    /\ \E c \in Range(run.walked) : parse(c).kind = "ParsedCommit"
    /\ MaxLevelOf(Range(run.walked)) = NO_RELEASE
    /\ run.version = Version(1, 0, 1, "rc", 1)

\* C2: without prerelease mode, when the highest full-release tag vX.Y.Z is
\* on an ancestor of HEAD, no other full-release tag is on the commits after
\* it, and major_on_zero holds or X >= 1, the result is X.Y.Z bumped by the
\* highest level L > NO_RELEASE of the commits after the tag.
NewestFullRelease ==
    CHOOSE t \in FullReleaseTags :
        \A u \in FullReleaseTags : ~lt(from_tag(t.name), from_tag(u.name))

CommitsAfter(c) == Ancestors(head) \ Ancestors(c)

C2_Expected(v, L) ==
    CASE L = MAJOR -> Version(v.major + 1, 0, 0, "", 0)
      [] L = MINOR -> Version(v.major, v.minor + 1, 0, "", 0)
      [] L = PATCH -> Version(v.major, v.minor, v.patch + 1, "", 0)

C2_Case ==
    /\ run.status = "ok"
    /\ ~run.prerelease
    /\ FullReleaseTags # {}
    /\ NewestFullRelease.commit \in Ancestors(head)
    /\ \A t \in FullReleaseTags : t.commit \notin CommitsAfter(NewestFullRelease.commit)
    /\ run.major_on_zero \/ from_tag(NewestFullRelease.name).major >= 1
    /\ MaxLevelOf(CommitsAfter(NewestFullRelease.commit)) > NO_RELEASE

C2_FullReleaseBumpedByMaxLevel ==
    C2_Case =>
        run.version = C2_Expected(from_tag(NewestFullRelease.name),
                                  MaxLevelOf(CommitsAfter(NewestFullRelease.commit)))

\* v1.0.0 followed by a fix and a breaking commit, with a prerelease tag
\* among them: 2.0.0.
C2_Witness ==
    /\ C2_Case
    /\ from_tag(NewestFullRelease.name) = Version(1, 0, 0, "", 0)
    /\ \E t \in VersionTags : /\ is_prerelease(from_tag(t.name))
                              /\ t.commit \in CommitsAfter(NewestFullRelease.commit)
    /\ Cardinality(LevelsOf(CommitsAfter(NewestFullRelease.commit))) >= 2
    /\ run.version = Version(2, 0, 0, "", 0)

\* C3: in prerelease mode with a level above NO_RELEASE (after the
\* major_on_zero clamp), with diff the coarsest core level in which
\* latest_version differs from latest_full_version_in_history: a level
\* above diff gives the repository-wide latest full release bumped by the
\* level with the suffix <token>.1; otherwise the result keeps
\* latest_version's core triple and is a prerelease.
C3_Level ==
    IF ~run.major_on_zero /\ run.latest_version.major = 0 /\ run.level_bump = MAJOR
    THEN MINOR ELSE run.level_bump

C3_Diff ==
    LET base == IF run.latest_full_version_in_history = None
                THEN Version(0, 0, 0, "", 0)
                ELSE run.latest_full_version_in_history
    IN  CASE run.latest_version.major # base.major -> MAJOR
          [] run.latest_version.major = base.major
             /\ run.latest_version.minor # base.minor -> MINOR
          [] run.latest_version.major = base.major
             /\ run.latest_version.minor = base.minor
             /\ run.latest_version.patch # base.patch -> PATCH
          [] OTHER -> NO_RELEASE

C3_Case == run.status = "ok" /\ run.prerelease /\ run.level_bump > NO_RELEASE

C3_PrereleaseIncrement ==
    C3_Case =>
        IF C3_Level > C3_Diff
        THEN LET bumped == C2_Expected(run.latest_full_release_version, C3_Level)
             IN  run.version = Version(bumped.major, bumped.minor, bumped.patch,
                                       run.prerelease_token, 1)
        ELSE /\ run.version.major = run.latest_version.major
             /\ run.version.minor = run.latest_version.minor
             /\ run.version.patch = run.latest_version.patch
             /\ run.version.prerelease_token # ""
             /\ run.version # run.latest_version

\* Last full release 1.0.0, then 1.0.1-rc.1 and a fix commit: 1.0.1-rc.2.
C3_Witness ==
    /\ C3_Case
    /\ run.latest_full_version_in_history = Version(1, 0, 0, "", 0)
    /\ run.latest_version = Version(1, 0, 1, "rc", 1)
    /\ run.level_bump = PATCH
    /\ run.version = Version(1, 0, 1, "rc", 2)

C4_Case ==
    /\ run.status = "ok"
    /\ ~run.major_on_zero
    /\ run.latest_version.major = 0
    /\ run.level_bump = MAJOR

\* C4 as stated: with major_on_zero false and latest_version's major 0, a
\* MAJOR level is clamped to MINOR and the result's major stays 0.
C4_MajorStaysZero == C4_Case => run.version.major = 0

\* C4 (amended): with major_on_zero false and latest_version's major 0, a
\* MAJOR level acts as MINOR: without prerelease mode a breaking commit on
\* 0.Y.Z gives 0.(Y+1).0, and the result's major is 0 unless, in prerelease
\* mode with the clamped level above diff, the repository-wide latest full
\* release has major >= 1, in which case the result is that release bumped
\* by the clamped level. A level of at most MINOR, or a latest_version with
\* major >= 1, gives the same result for either value of the setting.
C4_ClampedToMinor ==
    /\ C4_Case =>
         /\ ~run.prerelease =>
                run.version = Version(0, run.latest_version.minor + 1, 0, "", 0)
         /\ run.version.major # 0 =>
                /\ run.prerelease
                /\ MINOR > C3_Diff
                /\ run.latest_full_release_version.major >= 1
                /\ run.version = Version(run.latest_full_release_version.major,
                                         run.latest_full_release_version.minor + 1,
                                         0, run.prerelease_token, 1)
    /\ (run.status = "ok"
        /\ (run.level_bump <= MINOR \/ run.latest_version.major >= 1)) =>
           run.version = next_version(run.prerelease, ~run.major_on_zero,
                                      run.prerelease_token).version

\* A breaking commit on top of v0.1.0: 0.2.0.
C4_Witness ==
    /\ C4_Case
    /\ ~run.prerelease
    /\ run.latest_version = Version(0, 1, 0, "", 0)
    /\ run.version = Version(0, 2, 0, "", 0)

\* A second next_version, run with the same configuration after a release
\* that tagged HEAD with the version the first one returned and made no
\* commit.
C5_RerunAfterTaggingHead ==
    /\ run.status = "ok"
    /\ run.rerun
    /\ run.release = [committed |-> FALSE, tagged |-> TRUE]

\* C5: a second next_version, run with the same configuration after HEAD
\* was tagged with the version the first one returned and without new
\* commits, returns that same version.
C5_IdempotentAcrossRelease ==
    C5_RerunAfterTaggingHead => run.version = run.previous

\* What holds: after a release that commits the version, the second run
\* returns the released version. The message of the new HEAD does not
\* parse; when it is tagged the walk stops there, and when the release made
\* no tag the walk finds what the first run found.
C5_IdempotentAfterReleaseCommit ==
    (run.status = "ok" /\ run.rerun /\ run.release.committed) =>
        run.version = run.previous

\* A second run after a release that committed the version and tagged the
\* new HEAD.
C5_RerunAfterReleaseCommit ==
    /\ run.status = "ok"
    /\ run.rerun
    /\ run.release = [committed |-> TRUE, tagged |-> TRUE]
    /\ head = Len(commits)
    /\ commits[head].message = COMMIT_MESSAGE
    /\ \E t \in tags : t.commit = head /\ t.name = as_tag(run.version)

\* C6: the walk, tip to older, stops at the first commit a qualifying tag
\* points at (any version tag in prerelease mode, full-release tags
\* otherwise) and takes latest_version from that tag; older commits are not
\* parsed and do not count for level_bump.
QualifyingTags ==
    {t \in VersionTags : run.prerelease \/ ~is_prerelease(from_tag(t.name))}

C6_Hits == {n \in DOMAIN run.range : \E t \in QualifyingTags : t.commit = run.range[n]}

C6_Stop == CHOOSE n \in C6_Hits : \A m \in C6_Hits : n <= m

C6_WalkStopsAtFirstQualifyingTag ==
    run.status = "ok" =>
        IF C6_Hits = {}
        THEN /\ run.walked = run.range
             /\ run.level_bump = MaxLevelOf(Range(run.range))
        ELSE /\ run.walked = SubSeq(run.range, 1, C6_Stop)
             /\ \E t \in QualifyingTags : /\ t.commit = run.range[C6_Stop]
                                          /\ run.latest_version = from_tag(t.name)
             /\ run.level_bump =
                    MaxLevelOf({run.range[n] : n \in 1..C6_Stop})

\* The walk stopped before an older commit of a higher level.
C6_Witness ==
    /\ run.status = "ok"
    /\ C6_Hits # {}
    /\ \E n \in DOMAIN run.range :
           /\ n > C6_Stop
           /\ parse(run.range[n]).kind = "ParsedCommit"
           /\ parse(run.range[n]).bump > run.level_bump

\* The places of a history where a parse result is filed.
UnreleasedSlots ==
    UNION {{<<t, i>> : i \in DOMAIN hist.unreleased[t]} : t \in DOMAIN hist.unreleased}

ReleasedSlots ==
    UNION {UNION {{<<k, t, i>> : i \in DOMAIN hist.released[k].elements[t]} :
                  t \in DOMAIN hist.released[k].elements} :
           k \in DOMAIN hist.released}

UnreleasedAt(s) == hist.unreleased[s[1]][s[2]]
ReleasedAt(s) == hist.released[s[1]].elements[s[2]][s[3]]

\* C7: release_history files the parse result of every commit it walks in
\* exactly one list of unreleased and released[*].elements; the sizes of
\* all lists add up to the number of commits walked.
C7_EveryCommitFiledOnce ==
    hist.status = "ok" =>
        /\ hist.walked = iter_commits
        /\ Cardinality(UnreleasedSlots) + Cardinality(ReleasedSlots)
               = Len(hist.walked)
        /\ \A c \in Range(hist.walked) :
               Cardinality({s \in UnreleasedSlots : UnreleasedAt(s) = parse(c)})
             + Cardinality({s \in ReleasedSlots : ReleasedAt(s) = parse(c)}) = 1

C7_Witness ==
    /\ hist.status = "ok"
    /\ Len(hist.walked) >= 3
    /\ Cardinality(ReleasedSlots) >= 1
    /\ \E s \in UnreleasedSlots : s[2] >= 2

\* C8: walking tip to older, the commits before the first tagged commit are
\* filed under unreleased[type]; from a tagged commit on (that commit
\* included) commits are filed under released[the tag's version] until the
\* next tagged commit, which opens the next release entry.
C8_Tagged == {n \in DOMAIN hist.walked :
                 \E t \in VersionTags : t.commit = hist.walked[n]}

C8_TypeOf(c) == IF parse(c).kind = "ParseError" THEN "unknown" ELSE parse(c).type

\* The highest version among the tags on a commit.
C8_VersionOn(c) ==
    LET vs == {from_tag(t.name) : t \in {u \in VersionTags : u.commit = c}}
    IN  CHOOSE v \in vs : \A w \in vs : ~lt(v, w)

C8_FiledByTag ==
    hist.status = "ok" =>
        /\ Len(hist.released) = Cardinality(C8_Tagged)
        /\ \A n \in DOMAIN hist.walked :
               LET c == hist.walked[n]
                   before == {m \in C8_Tagged : m <= n}
               IN  IF before = {}
                   THEN \E s \in UnreleasedSlots :
                            s[1] = C8_TypeOf(c) /\ UnreleasedAt(s) = parse(c)
                   ELSE LET m == CHOOSE x \in before : \A y \in before : y <= x
                        IN  \E s \in ReleasedSlots :
                                /\ s[1] = Cardinality(before)
                                /\ hist.released[s[1]].version
                                       = C8_VersionOn(hist.walked[m])
                                /\ s[2] = C8_TypeOf(c)
                                /\ ReleasedAt(s) = parse(c)

C8_Witness ==
    /\ hist.status = "ok"
    /\ Len(hist.released) >= 2
    /\ Cardinality(UnreleasedSlots) >= 1
    /\ 1 \notin C8_Tagged

\* C9: the pairs tags_and_versions returns are in descending SemVer
\* precedence: of any two, the one with the higher version comes first.
C9_SortedDescending ==
    tv.status = "ok" =>
        \A i, j \in DOMAIN tv.value :
            lt(tv.value[j].version, tv.value[i].version) => i < j

\* A full release, two prereleases of it with different tokens or
\* revisions, in that order.
C9_Witness ==
    /\ tv.status = "ok"
    /\ Len(tv.value) = 3
    /\ tv.value[1].version = Version(1, 0, 1, "", 0)
    /\ tv.value[2].version.prerelease_token = "rc"
    /\ tv.value[3].version.patch = 1
    /\ tv.value[3].version.prerelease_token # ""

\* C10: tags_and_versions raises nothing and returns exactly the pairs of
\* the tags whose name translates to a Version; a tag that is not a version
\* tag does not appear in the result.
C10_NonVersionTagsDropped ==
    tv.status # "none" =>
        /\ tv.status = "ok"
        /\ {tv.value[i].tag : i \in DOMAIN tv.value} = VersionTags
        /\ \A i \in DOMAIN tv.value : tv.value[i].version # None

\* The two commits of the merge-base query of next_version: the commit of
\* the latest full-release tag, or the active branch itself when there is no
\* full release, and the active branch.
C11_QueryFrom ==
    IF FullReleaseTags = {} THEN head
    ELSE LET t == CHOOSE x \in FullReleaseTags :
                      \A y \in FullReleaseTags : ~lt(from_tag(x.name), from_tag(y.name))
         IN  t.commit

\* The commits the merge-base query of next_version returns.
C11_MergeBases == merge_base(C11_QueryFrom, head)

\* C11: when the merge-base query does not yield exactly one commit,
\* next_version fails with MultipleMergeBases (more than one commit) or
\* with MergeBaseNotFound (none).
C11_MergeBaseErrors ==
    run.status # "none" =>
        /\ Len(C11_MergeBases) > 1 => run.status = "MultipleMergeBases"
        /\ Len(C11_MergeBases) = 0 => run.status = "MergeBaseNotFound"

\* What the code does: the query never returns more than one commit, and
\* with none the run ends without a version, with IndexError.
C11_FailsWithoutVersion ==
    /\ Len(C11_MergeBases) <= 1
    /\ run.status # "none" =>
           /\ Len(C11_MergeBases) = 0 =>
                  run.status = "IndexError" /\ run.version = None
           /\ run.status # "NotImplementedError"

\* A run on a criss-cross merge, where the two commits of the query have two
\* best common ancestors: the query returns one of them and the run goes on.
C11_CrissCross ==
    /\ run.status = "ok"
    /\ Cardinality(best_common_ancestors(C11_QueryFrom, head)) > 1
    /\ Len(C11_MergeBases) = 1

C11_NoBase == run.status # "none" /\ Len(C11_MergeBases) = 0

\* The positions of the groups whose match pattern matches the active branch.
C12_Matching ==
    {i \in DOMAIN call.choices :
         re_match(call.choices[i].options.match, call.active_branch)}

\* C12: select_branch_options returns the options of the first group, in
\* declaration order, whose match pattern matches the active branch, even
\* when a later group matches too; it raises NotAReleaseBranch exactly when
\* no group matches.
C12_FirstMatchWins ==
    call.op = "select_branch_options" =>
        /\ (call.result.status = "NotAReleaseBranch") <=> (C12_Matching = {})
        /\ C12_Matching # {} =>
               /\ call.result.status = "ok"
               /\ \E i \in C12_Matching :
                      /\ \A j \in C12_Matching : i <= j
                      /\ call.result.value = call.choices[i].options

C12_Witness ==
    /\ call.op = "select_branch_options"
    /\ \E i, j \in C12_Matching :
           /\ i < j
           /\ \A k \in C12_Matching : i <= k
           /\ call.choices[i].options # call.choices[j].options
           /\ call.result.value = call.choices[i].options

\* A run of main that gets as far as selecting the branch options: a
\* release command, in a repository, with a configuration that parses.
C13_BranchSelected ==
    /\ call.op = "main"
    /\ call.invocation = Invocation("version", TRUE, "ok")

\* C13: when the active branch matches no configured group, main ends as a
\* successful "no release" run and not as the failure that
\* InvalidConfiguration is reported as.
C13_NotAReleaseBranchIsSuccess ==
    (C13_BranchSelected /\ C12_Matching = {}) => call.result.exit_code = 0

\* What main does: a branch outside every group ends in the usage error
\* that an invalid TOML configuration ends in.
C13_ReportedAsFailure ==
    /\ (C13_BranchSelected /\ C12_Matching = {}) =>
           /\ call.result.exit_code = 2
           /\ call.result.failed = "NotAReleaseBranch"
    /\ (call.op = "main" /\ call.invocation = Invocation("version", TRUE, "toml_invalid")) =>
           call.result.exit_code = 2

\* What main does with the other runs: a path of -c that does not exist is
\* a usage error for every command, generate-config otherwise ends well
\* whatever the configuration and the branch, and a configuration that is not read
\* or not accepted ends the run with exit code 2 when the error is handed
\* to ctx.fail and with exit code 1 when no handler catches it.
C13_OtherRuns ==
    call.op = "main" =>
        /\ call.invocation.config_file = "option_missing" =>
               call.result.exit_code = 2
        /\ (call.invocation.subcommand = "generate-config"
            /\ call.invocation.config_file # "option_missing") =>
               call.result.exit_code = 0
        /\ (call.invocation.subcommand # "generate-config"
            /\ call.invocation.config_file \in
                   {"directory", "undecodable", "toml_not_table", "json_invalid",
                    "json_no_key", "json_not_object", "wrong_type"}
            /\ call.invocation.in_repo) =>
               call.result.exit_code = 1
        /\ (call.result.exit_code = 0
            /\ call.invocation.subcommand # "generate-config") =>
               C13_BranchSelected /\ C12_Matching # {} /\ call.declarations_ok

\* The message of the commit a parser was called on, and whether it carries
\* a breaking-change mark the Angular parser reads.
C14_Message == commits[call.commit].message

C14_Trailers ==
    {i \in DOMAIN C14_Message.text :
         /\ C14_Message.text[i].label \in {"BREAKING CHANGE", "BREAKING-CHANGE"}
         /\ C14_Message.text[i].description # ""}

C14_Expected ==
    IF C14_Message.break \/ C14_Trailers # {} THEN MAJOR
    ELSE IF C14_Message.type \in minor_tags THEN MINOR
    ELSE IF C14_Message.type \in patch_tags THEN PATCH
    ELSE default_bump_level

\* C14: AngularCommitParser.parse gives MAJOR when "!" is present or a body
\* paragraph is a BREAKING CHANGE trailer, otherwise MINOR for a type in
\* minor_tags, otherwise PATCH for a type in patch_tags, otherwise
\* default_bump_level; non-empty breaking_descriptions imply MAJOR.
C14_BumpByPriority ==
    (call.op = "parse" /\ call.parser = "angular"
        /\ call.result.kind = "ParsedCommit") =>
        /\ call.result.bump = C14_Expected
        /\ Len(call.result.breaking_descriptions) = Cardinality(C14_Trailers)
        /\ call.result.breaking_descriptions # <<>> => call.result.bump = MAJOR

C14_Witness ==
    /\ call.op = "parse" /\ call.parser = "angular"
    /\ call.result.kind = "ParsedCommit"
    /\ C14_Message.type = "feat" /\ ~C14_Message.break
    /\ C14_Trailers # {}
    /\ \E i \in DOMAIN C14_Message.text : i \notin C14_Trailers
    /\ call.result.bump = MAJOR

\* The messages a parser cannot parse.
C15_Unparseable ==
    IF call.parser = "angular" THEN C14_Message.type \notin allowed_tags
    ELSE \/ C14_Message.type = ""
         \/ ~(contains(C14_Message, minor_tag) \/ contains(C14_Message, patch_tag))

\* C15: a parser returns a ParsedCommit or a ParseError carrying the commit
\* and never raises; next_version and release_history walk past a commit
\* that does not parse; CommitParseError comes only from raise_error().
C15_ParsersNeverRaise ==
    /\ call.op = "parse" =>
           /\ call.result.kind \in {"ParsedCommit", "ParseError"}
           /\ call.result.commit = call.commit
           /\ C15_Unparseable <=> call.result.kind = "ParseError"
    /\ call.op = "raise_error" => call.result.status = "CommitParseError"
    /\ run.status # "none" => run.status = "ok" /\ run.walked = iter_commits
    /\ hist.status # "none" => hist.status = "ok" /\ hist.walked = iter_commits

C15_Witness ==
    /\ call.op = "raise_error"
    /\ call.parser = "tag"
    /\ C14_Message.type = "feat"
    /\ call.result.status = "CommitParseError"

\* C16: v.bump(level) is strictly greater than v in SemVer precedence for
\* every level above NO_RELEASE, whether or not v is a prerelease or has
\* build metadata and for either value of the prerelease flag;
\* v.bump(NO_RELEASE) equals v.
C16_BumpStrictlyGreater ==
    call.op = "bump" =>
        /\ call.level > NO_RELEASE => lt(call.v, call.result)
        /\ call.level = NO_RELEASE => call.result = call.v

\* What bump does: the result is never below v, and it equals v only for
\* NO_RELEASE and for a prerelease bump of a prerelease part without a
\* number.
C16_BumpNeverSmaller ==
    call.op = "bump" =>
        /\ ~lt(call.result, call.v)
        /\ call.level = NO_RELEASE => call.result = call.v
        /\ (call.level > NO_RELEASE /\ ~lt(call.v, call.result)) =>
               /\ call.prerelease
               /\ is_prerelease(call.v)
               /\ call.v.prerelease_revision = 0

C16_BareToken ==
    /\ call.op = "bump"
    /\ call.level > NO_RELEASE /\ call.prerelease
    /\ is_prerelease(call.v) /\ call.v.prerelease_revision = 0
    /\ ~lt(call.v, call.result)

\* Whether an operation a client supports succeeds against a remote, and
\* the results supported operations return when they succeed.
C17_Succeeds(operation, remote) ==
    CASE operation = "check_build_status" ->
             \A i \in DOMAIN remote.jobs :
                 /\ remote.jobs[i].status # "pending"
                 /\ remote.jobs[i].status = "failed" => remote.jobs[i].allow_failure
      [] operation = "create_release" -> remote.created
      [] OTHER -> TRUE

C17_SuccessValues(operation) ==
    {hvcs_call(client, operation, given, remote).value :
        client \in {c \in Clients : operation \in overrides(c)},
        given \in Givens,
        remote \in {r \in Remotes : C17_Succeeds(operation, r)}}

\* C17: an operation the client does not support does not abort and returns
\* a signal that differs from what the operation returns when it is
\* supported and succeeds. The signal is the value the call returns. The
\* warning of the wrapper (result.warned) is not returned: it goes to the
\* warnings machinery of the process and the caller's code gets the value
\* alone, so the warning does not count as the signal.
C17_NotSupportedIsDistinguishable ==
    (call.op = "hvcs" /\ call.operation \notin overrides(call.client)) =>
        /\ call.result.status = "returned"
        /\ call.result.value \notin C17_SuccessValues(call.operation)

\* What the wrapper does: it warns and returns True for every operation,
\* whatever the client was built with.
C17_NotSupportedReturnsTrue ==
    (call.op = "hvcs" /\ call.operation \notin overrides(call.client)) =>
        /\ call.result.status = "returned"
        /\ call.result.warned
        /\ call.result.value = "True"

\* C18: binding the changelog context to an environment exposes repo_name,
\* repo_owner and history, registers the filters pull_request_url,
\* commit_hash_url and compare_url, each delegating to the HVCS client, and
\* leaves the filters under other names as they were.
C18_ThreeFiltersRegistered ==
    call.op = "bind_to_environment" =>
        /\ call.result.globals["context"].repo_name = repo_name
        /\ call.result.globals["context"].repo_owner = owner
        /\ call.result.globals["context"].history = call.history
        /\ \A n \in {"pull_request_url", "commit_hash_url", "compare_url"} :
               /\ n \in DOMAIN call.result.filters
               /\ call.result.filters[n] = Filter(call.client, n)
        /\ \A n \in DOMAIN call.env.filters :
               n \notin {"pull_request_url", "commit_hash_url", "compare_url"} =>
                   /\ n \in DOMAIN call.result.filters
                   /\ call.result.filters[n] = call.env.filters[n]

\* What binding does: two filters are registered, compare_url is not.
C18_TwoFiltersRegistered ==
    call.op = "bind_to_environment" =>
        /\ call.result.globals["context"].history = call.history
        /\ DOMAIN call.result.filters =
               DOMAIN call.env.filters \cup {"pull_request_url", "commit_hash_url"}
        /\ \A n \in {"pull_request_url", "commit_hash_url"} :
               call.result.filters[n] = Filter(call.client, n)
        /\ \A n \in DOMAIN call.env.filters :
               n \notin {"pull_request_url", "commit_hash_url"} =>
                   call.result.filters[n] = call.env.filters[n]

\* The four write steps in their order, and the position of a step in it.
C19_WriteSteps ==
    <<"set_new_version", "commit_new_version", "tag_new_version", "push_new_version">>

C19_Rank(step) == CHOOSE i \in DOMAIN C19_WriteSteps : C19_WriteSteps[i] = step

C19_IsWrite(step) == \E i \in DOMAIN C19_WriteSteps : C19_WriteSteps[i] = step

\* The write steps the command completed, in the order it made them.
C19_Writes == SelectSeq(call.result.log, C19_IsWrite)

C19_Wrote(step) == \E i \in DOMAIN C19_Writes : C19_Writes[i] = step

\* Whether the configuration of the call enables a write step.
C19_Enabled(step) ==
    CASE step = "set_new_version" -> call.config.version_source # "tag_only"
      [] step = "commit_new_version" ->
             /\ call.config.version_source # "tag_only"
             /\ call.config.commit_version_number \/ call.config.version_source = "commit"
      [] step = "tag_new_version" ->
             \/ call.config.version_source \in {"tag_only", "tag"}
             \/ call.config.tag_commit
      [] step = "push_new_version" -> call.op = "publish"

\* The calls of the write steps: they are made in the order of
\* C19_WriteSteps, each after every enabled earlier one, and none at or
\* after the step that failed.
C19_CallsInOrder ==
    /\ \A i, j \in DOMAIN C19_Writes :
           i < j => C19_Rank(C19_Writes[i]) < C19_Rank(C19_Writes[j])
    /\ \A j \in DOMAIN C19_Writes :
           \A r \in 1..(C19_Rank(C19_Writes[j]) - 1) :
               C19_Enabled(C19_WriteSteps[r]) =>
                   \E i \in 1..(j - 1) : C19_Writes[i] = C19_WriteSteps[r]
    /\ C19_IsWrite(call.result.raised) =>
           \A j \in DOMAIN C19_Writes :
               C19_Rank(C19_Writes[j]) < C19_Rank(call.result.raised)

\* What the run did to the working tree, the repository and the remote,
\* from the state before the command to the state after it. Each write
\* shows exactly when its step was completed. A commit holds version files
\* that were written; a new tag names HEAD as it is after the run, which is
\* the release commit when one is made, so the commit came first; a push
\* leaves the remote with the HEAD and the tags of the repository, so the
\* commit and the tag came first. The write of a failed step and the
\* writes of the steps after it are not made.
C19_WritesApplied ==
    /\ C19_Wrote("set_new_version")' <=> written' # written
    /\ C19_Wrote("commit_new_version")' <=> commits' # commits
    /\ C19_Wrote("tag_new_version")' <=> tags' # tags
    /\ C19_Wrote("push_new_version")' <=> origin' # origin
    /\ commits' # commits =>
           /\ written' = Append(written, call'.inputs.new_version)
           /\ commits' = Append(commits, commits'[Len(commits')])
           /\ commits'[Len(commits')].parents = <<head>>
           /\ head' = Len(commits')
    /\ commits' = commits => head' = head
    /\ tags' # tags =>
           /\ C19_Enabled("set_new_version")' => written' # written
           /\ C19_Enabled("commit_new_version")' => commits' # commits
           /\ \A t \in tags' : t \in tags \/ t.commit = head'
    /\ origin' # origin =>
           /\ C19_Enabled("set_new_version")' => written' # written
           /\ C19_Enabled("commit_new_version")' => commits' # commits
           /\ C19_Enabled("tag_new_version")' => tags' # tags
           /\ origin' = [head |-> head', tags |-> tags']
    /\ call'.result.raised = "set_new_version" =>
           UNCHANGED <<written, commits, head, tags, origin>>
    /\ call'.result.raised = "commit_new_version" =>
           UNCHANGED <<commits, head, tags, origin>>
    /\ call'.result.raised = "tag_new_version" => UNCHANGED <<tags, origin>>
    /\ call'.result.raised = "push_new_version" => UNCHANGED origin

\* C19: in a release run that is not a retry the write steps happen in the
\* order version files, commit, tag, push; a step runs only after every
\* enabled earlier step, and after a step failed no later step runs. This
\* holds of the calls the command makes and of what they leave in the
\* working tree, the repository and the remote.
C19_WritesInOrder ==
    [][(call'.op \in {"version", "publish"} /\ ~call'.retry) =>
           (C19_CallsInOrder' /\ C19_WritesApplied)]_vars

\* publish fails at the tag: the version files are written and committed,
\* HEAD is the release commit, and there is no tag and nothing is pushed.
C19_Witness ==
    /\ call.op = "publish" /\ ~call.retry
    /\ call.result.raised = "tag_new_version"
    /\ C19_Writes = <<"set_new_version", "commit_new_version">>
    /\ written = <<call.inputs.new_version>>
    /\ Len(commits) = 2 /\ head = 2
    /\ commits[2].message = COMMIT_MESSAGE
    /\ tags = {}
    /\ origin = [head |-> 1, tags |-> {}]

\* C20: with noop set, version and publish write no version file and make
\* no commit, no tag and no push, whatever the versions and the level are:
\* no write step is called, and the working tree, the repository and the
\* remote are after the command as they were before it.
C20_NoopWritesNothing ==
    [][(call'.op \in {"version", "publish"} /\ call'.noop) =>
           /\ C19_Writes' = <<>>
           /\ UNCHANGED <<written, commits, head, tags, origin>>]_vars

\* publish with noop where a release is due: it reads the versions, checks
\* the CI and checks out the branch, and nothing is written.
C20_Witness ==
    /\ call.op = "publish" /\ call.noop /\ ~call.retry
    /\ call.inputs.new_version = "1.1.0"
    /\ call.inputs.fail_at = "none"
    /\ call.result.log = <<"get_current_version", "ci_checks", "checkout">>
    /\ written = <<>>
    /\ Len(commits) = 1 /\ head = 1
    /\ tags = {}
    /\ origin = [head |-> 1, tags |-> {}]

\* The full-release tags on the merge base of the call or on its ancestors.
C21_TaggedAncestors ==
    {t \in FullReleaseTags : t.commit \in Ancestors(call.merge_base)}

\* C21: _bfs_for_latest_version_in_history returns a version whenever a
\* full-release tag points at the merge base or at one of its ancestors,
\* also when a commit is enqueued more than once, and None only when there
\* is no such commit.
C21_BfsFindsTaggedAncestor ==
    call.op = "_bfs_for_latest_version_in_history" =>
        (call.result # None <=> C21_TaggedAncestors # {})

\* What the search does: a version it returns is that of a full-release tag
\* on the merge base or an ancestor, and it returns None when there is no
\* such tag or when a commit comes out of the queue a second time.
C21_BfsResultIsTaggedAncestor ==
    call.op = "_bfs_for_latest_version_in_history" =>
        /\ call.result # None =>
               \E t \in C21_TaggedAncestors : from_tag(t.name) = call.result
        /\ C21_TaggedAncestors = {} => call.result = None

C21_MissedTag ==
    /\ call.op = "_bfs_for_latest_version_in_history"
    /\ C21_TaggedAncestors # {}
    /\ call.result = None

\* The same through next_version: a run whose search found no version
\* although a full-release tag is on an ancestor of the merge base.
C21_RunMissedTag ==
    /\ run.status = "ok"
    /\ run.latest_full_version_in_history = None
    /\ \E t \in FullReleaseTags : t.commit \in Ancestors(C11_MergeBases[1])

\* C22: in prerelease mode, when the level (after the major_on_zero clamp)
\* does not exceed diff, the result carries the configured prerelease token;
\* its revision is latest_version's revision + 1 when latest_version's token
\* is the configured one and 1 when the tokens differ.
C22_Case == C3_Case /\ C3_Level <= C3_Diff

C22_TokenAndRevision ==
    C22_Case =>
        /\ run.version.prerelease_token = run.prerelease_token
        /\ run.version.prerelease_revision =
               IF run.latest_version.prerelease_token = run.prerelease_token
               THEN run.latest_version.prerelease_revision + 1
               ELSE 1

\* 1.0.1-rc.1 on the branch and "alpha" configured: 1.0.1-alpha.1.
C22_Witness ==
    /\ C22_Case
    /\ run.latest_version = Version(1, 0, 1, "rc", 1)
    /\ run.prerelease_token = "alpha"
    /\ run.version = Version(1, 0, 1, "alpha", 1)

\* The token is the configured one: 1.0.1-rc.1 becomes 1.0.1-rc.2.
C22_SameToken ==
    /\ C22_Case
    /\ run.latest_version = Version(1, 0, 1, "rc", 1)
    /\ run.prerelease_token = "rc"
    /\ run.version = Version(1, 0, 1, "rc", 2)

\* The commits of a walk whose message does not parse.
C23_Errors(walked) == {c \in Range(walked) : parse(c).kind = "ParseError"}

\* C23: a commit whose message yields a ParseError adds nothing to the
\* level_bump of next_version (the level is the highest bump of the walked
\* commits that parse, NO_RELEASE when none does), and release_history
\* lists it under the key "unknown" of the bucket it falls in: unreleased
\* before the first tagged commit of the walk, the release of the last
\* tagged commit met otherwise.
C23_ParseErrorsUnknown ==
    /\ run.status = "ok" =>
           /\ run.level_bump =
                  max({parse(c).bump : c \in Range(run.walked) \ C23_Errors(run.walked)},
                      NO_RELEASE)
           /\ Range(run.walked) = C23_Errors(run.walked) =>
                  run.level_bump = NO_RELEASE /\ run.version = run.latest_version
    /\ hist.status = "ok" =>
           \A n \in DOMAIN hist.walked :
               LET c == hist.walked[n]
                   before == {m \in C8_Tagged : m <= n}
               IN  c \in C23_Errors(hist.walked) =>
                       IF before = {}
                       THEN /\ "unknown" \in DOMAIN hist.unreleased
                            /\ parse(c) \in Range(hist.unreleased["unknown"])
                       ELSE LET m == CHOOSE x \in before : \A y \in before : y <= x
                            IN  \E k \in DOMAIN hist.released :
                                    /\ hist.released[k].version
                                           = C8_VersionOn(hist.walked[m])
                                    /\ "unknown" \in DOMAIN hist.released[k].elements
                                    /\ parse(c) \in
                                           Range(hist.released[k].elements["unknown"])

\* A history with a commit that does not parse in unreleased and another
\* one in a release.
C23_Witness ==
    /\ hist.status = "ok"
    /\ "unknown" \in DOMAIN hist.unreleased
    /\ \E k \in DOMAIN hist.released : "unknown" \in DOMAIN hist.released[k].elements
    /\ Cardinality(C23_Errors(hist.walked)) >= 2

\* A run that walked a commit that does not parse and a fix: PATCH.
C23_RunPastError ==
    /\ run.status = "ok"
    /\ C23_Errors(run.walked) # {}
    /\ run.level_bump = PATCH

\* Whether a legacy tag occurs in the message of the call, first line or body.
C24_Has(tag) ==
    \/ C14_Message.type = tag
    \/ \E i \in DOMAIN C14_Message.text : C14_Message.text[i].label = tag

C24_Level ==
    IF C14_Trailers # {} THEN <<MAJOR, "breaking">>
    ELSE IF C24_Has(minor_tag) THEN <<MINOR, "feature">>
    ELSE <<PATCH, "fix">>

\* C24: TagCommitParser.parse gives MINOR and type "feature" when the minor
\* tag occurs anywhere in the message, else PATCH and type "fix" when the
\* patch tag occurs anywhere, else a ParseError; a BREAKING CHANGE trailer
\* in a body paragraph makes the result MAJOR with type "breaking".
C24_TagAnywhere ==
    (call.op = "parse" /\ call.parser = "tag") =>
        IF C24_Has(minor_tag) \/ C24_Has(patch_tag)
        THEN /\ call.result.kind = "ParsedCommit"
             /\ <<call.result.bump, call.result.type>> = C24_Level
        ELSE call.result.kind = "ParseError"

\* What the parser does: the levels above for a message that has a first
\* line, and a ParseError for every message without one, tagged or not.
C24_TagAfterFirstLine ==
    (call.op = "parse" /\ call.parser = "tag") =>
        IF C14_Message.type # "" /\ (C24_Has(minor_tag) \/ C24_Has(patch_tag))
        THEN /\ call.result.kind = "ParsedCommit"
             /\ <<call.result.bump, call.result.type>> = C24_Level
        ELSE call.result.kind = "ParseError"

\* A message without a first line whose body holds the patch tag.
C24_TagWithoutFirstLine ==
    /\ call.op = "parse" /\ call.parser = "tag"
    /\ C14_Message.type = ""
    /\ C24_Has(patch_tag)
    /\ call.result.kind = "ParseError"

\* The patch tag on the first line and the minor tag in the body: MINOR.
C24_MinorInBody ==
    /\ call.op = "parse" /\ call.parser = "tag"
    /\ C14_Message.type = patch_tag
    /\ C24_Has(minor_tag)
    /\ call.result.bump = MINOR

\* C25: when next_version triggers a release (level_bump above NO_RELEASE),
\* the version it returns is not the version of a tag that is already in
\* the repository, on the active branch or outside its history.
C25_NotAnExistingTag ==
    (run.status = "ok" /\ run.level_bump > NO_RELEASE) =>
        \A t \in VersionTags : from_tag(t.name) # run.version

\* A triggered release whose version is that of a full-release tag on a
\* commit outside the history of HEAD.
C25_TagOnOtherBranch ==
    /\ run.status = "ok" /\ run.level_bump > NO_RELEASE
    /\ ~is_prerelease(run.version)
    /\ \E t \in FullReleaseTags :
           /\ from_tag(t.name) = run.version
           /\ t.commit \notin Ancestors(head)

\* The same with a tag on a commit of the active branch.
C25_TagOnThisBranch ==
    /\ run.status = "ok" /\ run.level_bump > NO_RELEASE
    /\ \E t \in VersionTags :
           /\ from_tag(t.name) = run.version
           /\ t.commit \in Ancestors(head)

\* C26: when next_version triggers a release, the version it returns is
\* strictly greater in SemVer precedence than latest_version, in either
\* mode, for either value of major_on_zero and for every configured token.
C26_GreaterThanLatestVersion ==
    (run.status = "ok" /\ run.level_bump > NO_RELEASE) =>
        lt(run.latest_version, run.version)

\* What holds outside prerelease mode: the result is never below
\* latest_version's core triple.
C26_FullReleaseNotBelow ==
    (run.status = "ok" /\ run.level_bump > NO_RELEASE /\ ~run.prerelease) =>
        ~lt(run.version, finalize_version(run.latest_version))

\* The configured token sorts before the token of the latest prerelease:
\* 1.0.1-rc.1 is followed by 1.0.1-alpha.1.
C26_TokenChanged ==
    /\ run.status = "ok" /\ run.level_bump > NO_RELEASE
    /\ run.latest_version = Version(1, 0, 1, "rc", 1)
    /\ run.version = Version(1, 0, 1, "alpha", 1)
    /\ lt(run.version, run.latest_version)

\* latest_version is a full release and the result is a prerelease of it.
C26_PrereleaseOfLatestVersion ==
    /\ run.status = "ok" /\ run.level_bump > NO_RELEASE
    /\ ~is_prerelease(run.latest_version)
    /\ run.version = to_prerelease(run.latest_version, run.prerelease_token, 1)

\* The second input of C25: 0.1.0 on the branch, v1.0.0 on another branch.
C25_MajorOntoOtherBranch ==
    /\ C25_TagOnOtherBranch
    /\ run.latest_version = Version(0, 1, 0, "", 0)
    /\ run.version = Version(1, 0, 0, "", 0)

\* C27: in prerelease mode every version next_version returns for a
\* triggered release is a prerelease with the configured prerelease token
\* and a revision of at least 1.
C27_PrereleaseWithConfiguredToken ==
    (run.status = "ok" /\ run.prerelease /\ run.level_bump > NO_RELEASE) =>
        /\ is_prerelease(run.version)
        /\ run.version.prerelease_token = run.prerelease_token
        /\ run.version.prerelease_revision >= 1

\* The first prerelease after 1.0.0, for a feature: 1.1.0-alpha.1.
C27_Witness ==
    /\ run.status = "ok" /\ run.prerelease /\ run.level_bump = MINOR
    /\ run.latest_version = Version(1, 0, 0, "", 0)
    /\ run.prerelease_token = "alpha"
    /\ run.version = Version(1, 1, 0, "alpha", 1)

\* C28: outside prerelease mode next_version never returns a prerelease
\* version: no prerelease tag becomes latest_version during the walk, and
\* the result, bumped or not, has no prerelease suffix, also on a
\* repository without a full-release tag.
C28_NeverAPrerelease ==
    (run.status = "ok" /\ ~run.prerelease) =>
        /\ \A t \in VersionTags :
               is_prerelease(from_tag(t.name)) => run.latest_version # from_tag(t.name)
        /\ ~is_prerelease(run.latest_version)
        /\ ~is_prerelease(run.version)

\* What holds outside prerelease mode: latest_version is the version of a
\* full-release tag or the initial Version(0, 0, 0, prerelease_token=...),
\* and the result is a prerelease only when it is that initial version,
\* returned unchanged.
C28_FullReleaseOrInitialVersion ==
    (run.status = "ok" /\ ~run.prerelease) =>
        /\ \/ \E t \in FullReleaseTags : run.latest_version = from_tag(t.name)
           \/ run.latest_version = Version(0, 0, 0, run.prerelease_token, 0)
        /\ is_prerelease(run.version) =>
               /\ run.level_bump = NO_RELEASE
               /\ run.version = Version(0, 0, 0, run.prerelease_token, 0)

\* No full-release tag in the history and nothing to release: the initial
\* version comes back with the prerelease token it was built with.
C28_InitialVersionReturned ==
    /\ run.status = "ok" /\ ~run.prerelease
    /\ FullReleaseTags = {}
    /\ run.level_bump = NO_RELEASE
    /\ is_prerelease(run.version)

\* A prerelease tag on the walked commits is passed over.
C28_PrereleaseTagPassedOver ==
    /\ run.status = "ok" /\ ~run.prerelease
    /\ \E t \in VersionTags : /\ is_prerelease(from_tag(t.name))
                              /\ t.commit \in Range(run.walked)
    /\ ~is_prerelease(run.version)

C29_ReleasedVersions == {hist.released[k].version : k \in DOMAIN hist.released}

\* C29: for every tag that translates to a version and points at a commit
\* release_history walked, released has an entry keyed by that version,
\* also when several version tags point at the same commit.
C29_EveryTagHasAnEntry ==
    hist.status = "ok" =>
        \A t \in VersionTags :
            t.commit \in Range(hist.walked) => from_tag(t.name) \in C29_ReleasedVersions

\* What holds: released has exactly one entry per tagged commit walked,
\* keyed by the highest version among the tags on it.
C29_HighestTagHasTheEntry ==
    hist.status = "ok" =>
        C29_ReleasedVersions =
            {C8_VersionOn(hist.walked[n]) : n \in C8_Tagged}

\* Two version tags on one commit: the lower version has no entry.
C29_SecondTagDropped ==
    /\ hist.status = "ok"
    /\ \E t, u \in VersionTags :
           /\ t.commit = u.commit /\ t.commit \in Range(hist.walked)
           /\ lt(from_tag(t.name), from_tag(u.name))
           /\ from_tag(u.name) \in C29_ReleasedVersions
           /\ from_tag(t.name) \notin C29_ReleasedVersions

\* The commits from which no version tag's commit is reached going back:
\* neither tagged nor an ancestor of a tagged commit.
C30_Untagged(walked) ==
    {c \in Range(walked) : \A t \in VersionTags : c \notin Ancestors(t.commit)}

\* C30: release_history files a commit under released[v] only if it is the
\* commit tagged v or one of its ancestors; a commit that is not reachable
\* from any tagged commit is filed under unreleased, also when a history
\* with merge commits has it iterated after a tagged commit.
C30_ReleasedMeansReachable ==
    hist.status = "ok" =>
        /\ \A s \in ReleasedSlots :
               \E t \in VersionTags :
                   /\ from_tag(t.name) = hist.released[s[1]].version
                   /\ ReleasedAt(s).commit \in Ancestors(t.commit)
        /\ \A c \in C30_Untagged(hist.walked) :
               \E s \in UnreleasedSlots : UnreleasedAt(s).commit = c

\* A commit of a merged branch that is not reachable from the tagged commit
\* and is iterated after it: filed under the release of that tag.
C30_FiledUnderForeignRelease ==
    /\ hist.status = "ok"
    /\ \E s \in ReleasedSlots : ReleasedAt(s).commit \in C30_Untagged(hist.walked)

====
